---- MODULE Spec2Model ----
(***************************************************************************)
(* Rewards bot (vds-han/mybot): the relational store (users, rewards,      *)
(* transactions, configuration), the flat files holding the TNG pins, the  *)
(* chat handlers of bot.py run by concurrent webhook workers, the MQTT     *)
(* subscriber that credits disposals, the consumer of the notification     *)
(* queue, and the add_points endpoint of api.py.                           *)
(*                                                                          *)
(* Granularity: one action per access to shared state (a SELECT, a COMMIT, *)
(* a file read, a file truncation, a file write).  Code that touches only  *)
(* the handler's own objects is folded into the access that precedes it.   *)
(* The ORM writes absolute values: `user.points -= n` becomes              *)
(* UPDATE users SET points = <loaded value - n>, so a handler carries the  *)
(* values it loaded.                                                        *)
(***************************************************************************)
EXTENDS Integers, Sequences, FiniteSets, TLC

\* Bounds of the model.
MaxRequests == 2      \* chat and API requests served in one behaviour
MaxEvents == 2        \* sensor messages received in one behaviour
MaxEventsAmongRequests == 1   \* the same, where every handler runs beside the sensor
MaxActivations == 3   \* /start requests, where no other handler runs
MaxRegistrationRequests == 3   \* requests of a behaviour of the registration flow
MaxStockRequests == 1   \* redemptions served against a store of any shape
MaxOperations == 2     \* requests and sensor messages together, every handler present
MaxLosses == 2         \* losses of the broker connection

\* The webhook server serves requests on concurrent threads; two suffice for
\* every race of the handlers.
Workers == {"w1", "w2"}

VARIABLES
    users,          \* table users: row id -> [telegram_id, phone_number, name, points]
    rewards,        \* table rewards: row id -> [name, points_required, quantity_available]
    transactions,   \* table transactions, in insertion order
    configuration,  \* table configuration: rows [active_user_id]
    pin_files,      \* file name -> [exists, lines]
    fk_enforced,    \* does the store enforce foreign keys (PostgreSQL) or not (SQLite)
    user_data,      \* dispatcher.user_data: telegram id -> registration_step, in memory
    message_queue,  \* queue.Queue() of notifications
    worker,         \* worker -> the request it is serving, the objects it loaded,
                    \*           and at "done" the reply it sent
    notifier,       \* the thread of process_message_queue: the message it is sending
    mqtt,           \* the subscriber thread: the message it is processing
    startup,        \* the main thread in initialize_bot, the threads it started and
                    \*   the connection of the MQTT client
    nrequests,      \* requests taken so far
    nevents         \* sensor messages taken so far

store == <<users, rewards, transactions, configuration, pin_files>>
vars == <<users, rewards, transactions, configuration, pin_files, fk_enforced, startup,
          user_data, message_queue, notifier, worker, mqtt, nrequests, nevents>>

----------------------------------------------------------------------------
\* Strings.  A text is a sequence of words; upper() maps each word; the
\* substring tests of the code ('TNG' in name.upper()) are tests on words.

upper_word(w) ==
    CASE w = "tng" -> "TNG"
      [] w = "Pin" -> "PIN"
      [] w = "rm5" -> "RM5"
      [] w = "rm10" -> "RM10"
      [] w = "Tote" -> "TOTE"
      [] w = "Bag" -> "BAG"
      [] w = "Card" -> "CARD"
      [] OTHER -> w

upper(text) == [i \in DOMAIN text |-> upper_word(text[i])]

lower(word) ==
    CASE word = "Plastic" -> "plastic"
      [] word = "Metal" -> "metal"
      [] word = "Paper" -> "paper"
      [] word = "Glass" -> "glass"
      [] word = "Disposed" -> "disposed"
      [] word = "DISPOSED" -> "disposed"
      [] OTHER -> word

\* The letters of the words that reward names are made of; any other word
\* counts as one letter of its own.
spell(word) ==
    CASE word = "TNG" -> <<"T", "N", "G">>
      [] word = "PIN" -> <<"P", "I", "N">>
      [] word = "RM5" -> <<"R", "M", "5">>
      [] word = "RM10" -> <<"R", "M", "1", "0">>
      [] word = "RM50" -> <<"R", "M", "5", "0">>
      [] word = "TOTE" -> <<"T", "O", "T", "E">>
      [] word = "BAG" -> <<"B", "A", "G">>
      [] word = "CARD" -> <<"C", "A", "R", "D">>
      [] OTHER -> <<word>>

\* part in word
substring(part, word) ==
    LET p == spell(part)
        s == spell(word)
    IN  \E k \in 0..(Len(s) - Len(p)) : SubSeq(s, k + 1, k + Len(p)) = p

\* word in text, for a word without blanks: it lies within one word of the text.
contains(text, word) == \E i \in DOMAIN text : substring(word, text[i])

\* int(data.split('_')[1]): <<n>> is the integer, <<>> the ValueError branch.
parse_int(token) ==
    CASE token = "1" -> <<1>>
      [] token = "2" -> <<2>>
      [] token = "3" -> <<3>>
      [] token = "4" -> <<4>>
      [] token = "5" -> <<5>>
      [] OTHER -> <<>>

Min(S) == CHOOSE x \in S : \A y \in S : x <= y

RECURSIVE SumSeq(_)
SumSeq(s) == IF s = <<>> THEN 0 ELSE Head(s) + SumSeq(Tail(s))

----------------------------------------------------------------------------
\* Queries of the store.  0 is the None of .first().

\* Faulty variant: the filter is lost and .first() returns the first user there is.
query_user_unfiltered(tg) ==
    LET found == {i \in DOMAIN users : users[i].telegram_id = tg}
    IN  IF found # {} THEN Min(found) ELSE IF users = <<>> THEN 0 ELSE 1

\* db.query(User).filter_by(telegram_id=user_id).first()
query_user_by_telegram_id(tg) ==
    LET found == {i \in DOMAIN users : users[i].telegram_id = tg}
    IN  IF found = {} THEN 0 ELSE Min(found)

\* Faulty variant: a missing user falls back to the first user of the table.
query_user_or_first(id) == IF id \in DOMAIN users THEN id ELSE 1

\* db.query(User).filter_by(id=...).first()
query_user_by_id(id) == IF id \in DOMAIN users THEN id ELSE 0

\* db.query(Reward).filter_by(id=reward_id).first()
query_reward(reward_id) == IF reward_id \in DOMAIN rewards THEN reward_id ELSE 0

\* db.query(Configuration).first(): no ORDER BY, so any row may come first.
query_configuration_first == IF configuration = <<>> THEN {0} ELSE DOMAIN configuration

----------------------------------------------------------------------------
\* The chat users and the data of the deployment.

\* Telegram ids of the people who write to the bot; 103 never registered.
Senders == {101, 102, 103}

SeedUsers ==
    <<[telegram_id |-> 101, phone_number |-> "+60101", name |-> <<"Ali">>, points |-> 25],
      [telegram_id |-> 102, phone_number |-> "+60102", name |-> <<"Bea">>, points |-> 10]>>

SeedRewards ==
    <<[name |-> <<"TNG", "Pin", "RM5">>, points_required |-> 10, quantity_available |-> 2],
      [name |-> <<"tng", "Pin", "rm10">>, points_required |-> 25, quantity_available |-> 1],
      [name |-> <<"Tote", "Bag">>, points_required |-> 10, quantity_available |-> 1],
      [name |-> <<"TNG", "Card">>, points_required |-> 10, quantity_available |-> 1]>>

SeedTransactions ==
    <<[user_id |-> 1, points_change |-> 25, description |-> <<"Disposed", "metal">>],
      [user_id |-> 2, points_change |-> 10, description |-> <<"Disposed", "plastic">>]>>

SeedPinFiles ==
    [f \in {"tng_pins_rm5.txt", "tng_pins_rm10.txt"} |->
        IF f = "tng_pins_rm5.txt"
        THEN [exists |-> TRUE, lines |-> << <<"#USED#", "P0">>, <<"P1">> >>]
        ELSE [exists |-> FALSE, lines |-> <<>>]]

----------------------------------------------------------------------------
\* A worker between requests, and the subscriber between messages.

IdleWorker ==
    [pc |-> "idle", handler |-> "", sender |-> 0, data |-> "", arg |-> 0,
     user_id |-> 0, user_points |-> 0,
     reward_id |-> 0, reward_quantity |-> 0,
     pin_file |-> "", pins |-> <<>>, tng_pin |-> "",
     config_id |-> 0, config_active |-> 0, previous_user |-> 0,
     reply |-> "", reply_reward |-> 0, reply_pin |-> "", reply_list |-> <<>>]

\* No message yet.
NoPayload == [json |-> "none", has_type |-> FALSE, is_str |-> FALSE, rubbish_type |-> ""]

\* The subscriber between messages: payload is the message it handled last
\* and log the line the handling ended with.
IdleMqtt ==
    [pc |-> "idle", payload |-> NoPayload, log |-> "",
     rubbish_type |-> "", user_id |-> 0, user_points |-> 0, points |-> 0]

\* The consumer blocked in message_queue.get().
IdleNotifier == [pc |-> "get", chat_id |-> 0, text |-> <<>>, attempts |-> 0, log |-> "none"]

\* initialize_bot has returned with everything started, the client is
\* connected and subscribed, and app.run serves the webhook.
Started ==
    [pc |-> "serving", parameters |-> TRUE, handlers |-> TRUE, loop |-> TRUE,
     connection |-> "connected", subscribed |-> TRUE, consumer |-> TRUE, losses |-> 0]

\* A handler sends its reply to the chat and returns: the request (handler,
\* sender, data) and what the message says (its kind, the reward and the pin
\* it names) stay with the worker until the web server has answered the
\* request.  The chat transport is taken to deliver every reply.
Finish(w, handler, chat, data, kind, reward_id, pin) ==
    worker' = [worker EXCEPT ![w] =
        [IdleWorker EXCEPT !.pc = "done", !.handler = handler, !.sender = chat,
                           !.data = data, !.reply = kind,
                           !.reply_reward = reward_id, !.reply_pin = pin]]

\* webhook_handler returns "OK", 200 and the thread is free again.
webhook_handler_return(w) ==
    /\ worker[w].pc = "done"
    /\ worker' = [worker EXCEPT ![w] = IdleWorker]
    /\ UNCHANGED <<users, rewards, transactions, configuration, pin_files, fk_enforced, startup, user_data,
                   message_queue, notifier, mqtt, nrequests, nevents>>

Init ==
    /\ users = SeedUsers
    /\ rewards = SeedRewards
    /\ transactions = SeedTransactions
    /\ configuration = <<[active_user_id |-> 2]>>
    /\ pin_files = SeedPinFiles
    /\ fk_enforced \in BOOLEAN
    /\ startup = Started
    /\ user_data = [sender \in Senders |-> "none"]
    /\ message_queue = <<>>
    /\ worker = [w \in Workers |-> IdleWorker]
    /\ notifier = IdleNotifier
    /\ mqtt = IdleMqtt
    /\ nrequests = 0
    /\ nevents = 0

----------------------------------------------------------------------------
\* Redemption arbiter: process_reward_selection and get_tng_pin.

\* Callback data of the reward buttons, and one that does not parse.
RedeemData == {<<"redeem", "1">>, <<"redeem", "2">>, <<"redeem", "3">>,
               <<"redeem", "4">>, <<"redeem", "5">>, <<"redeem", "x">>}

\* Faulty variant: the balance is compared with the wrong column.
insufficient_points_wrong_column(points, reward) == points < reward.quantity_available

\* user.points < reward.points_required
insufficient_points(points, reward) == points < reward.points_required

\* Faulty variant: the stock check lets a quantity of 0 through.
out_of_stock_below_zero(reward) == reward.quantity_available < 0

\* reward.quantity_available <= 0
out_of_stock(reward) == reward.quantity_available <= 0

\* 'TNG' in reward.name.upper()
is_tng(reward) == contains(upper(reward.name), "TNG")

\* get_tng_pin: the file of the reward, "" when the amount is unknown.
tng_pin_file(reward_name) ==
    IF contains(upper(reward_name), "RM5") THEN "tng_pins_rm5.txt"
    ELSE IF contains(upper(reward_name), "RM10") THEN "tng_pins_rm10.txt"
    ELSE ""

\* pin = line.strip(); pin and not pin.startswith('#USED#')
line_unused(line) == line # <<>> /\ Head(line) # "#USED#"

\* The index of the first unused line, 0 when the loop finds none.
first_unused(pins) ==
    LET free == {i \in DOMAIN pins : line_unused(pins[i])}
    IN  IF free = {} THEN 0 ELSE Min(free)

\* pins[idx] = '#USED#' + pin + '\n'
mark_used(pins, idx) == [pins EXCEPT ![idx] = <<"#USED#">> \o pins[idx]]

\* Lines 650-691: take the callback, answer it, parse the reward id, load the user.
process_reward_selection(w) ==
    /\ worker[w].pc = "idle"
    /\ nrequests < MaxRequests
    /\ nrequests' = nrequests + 1
    /\ \E sender \in Senders, data \in RedeemData :
        LET reward_id == parse_int(data[2])
            user == query_user_by_telegram_id(sender)
        IN  IF reward_id = <<>>
            THEN Finish(w, "redeem", sender, data[2], "invalid_selection", 0, "")
            ELSE IF user = 0
            THEN Finish(w, "redeem", sender, data[2], "not_registered", 0, "")
            ELSE /\ worker' = [worker EXCEPT ![w] =
                        [IdleWorker EXCEPT !.pc = "redeem_reward", !.handler = "redeem",
                            !.sender = sender, !.data = data[2], !.arg = reward_id[1],
                            !.user_id = user, !.user_points = users[user].points]]
    /\ UNCHANGED <<store, fk_enforced, startup, user_data, message_queue, notifier, mqtt, nevents>>

\* Faulty variant: the stock is checked before the balance.
redeem_load_reward_stock_first(w) ==
    /\ worker[w].pc = "redeem_reward"
    /\ LET me == worker[w]
           reward_id == query_reward(me.arg)
       IN  IF reward_id = 0
           THEN Finish(w, me.handler, me.sender, me.data, "invalid_reward", 0, "")
           ELSE LET reward == rewards[reward_id] IN
                IF out_of_stock(reward)
                THEN Finish(w, me.handler, me.sender, me.data, "out_of_stock", reward_id, "")
                ELSE IF insufficient_points(me.user_points, reward)
                THEN Finish(w, me.handler, me.sender, me.data, "insufficient_points", reward_id, "")
                ELSE IF is_tng(reward) /\ tng_pin_file(reward.name) = ""
                THEN Finish(w, me.handler, me.sender, me.data, "no_pins", reward_id, "")
                ELSE /\ worker' = [worker EXCEPT ![w] =
                            [me EXCEPT !.pc = IF is_tng(reward) THEN "pin_read"
                                                                ELSE "redeem_commit1",
                                !.reward_id = reward_id,
                                !.reward_quantity = reward.quantity_available,
                                !.pin_file = IF is_tng(reward) THEN tng_pin_file(reward.name)
                                                               ELSE ""]]
    /\ UNCHANGED <<store, fk_enforced, startup, user_data, message_queue, notifier, mqtt, nrequests, nevents>>

\* Lines 693-730 and 825-835: load the reward, the three checks, the branch on TNG.
redeem_load_reward(w) ==
    /\ worker[w].pc = "redeem_reward"
    /\ LET me == worker[w]
           reward_id == query_reward(me.arg)
       IN  IF reward_id = 0
           THEN Finish(w, me.handler, me.sender, me.data, "invalid_reward", 0, "")
           ELSE LET reward == rewards[reward_id] IN
                IF insufficient_points(me.user_points, reward)
                THEN Finish(w, me.handler, me.sender, me.data, "insufficient_points", reward_id, "")
                ELSE IF out_of_stock(reward)
                THEN Finish(w, me.handler, me.sender, me.data, "out_of_stock", reward_id, "")
                ELSE IF is_tng(reward) /\ tng_pin_file(reward.name) = ""
                THEN Finish(w, me.handler, me.sender, me.data, "no_pins", reward_id, "")
                ELSE /\ worker' = [worker EXCEPT ![w] =
                            [me EXCEPT !.pc = IF is_tng(reward) THEN "pin_read"
                                                                ELSE "redeem_commit1",
                                !.reward_id = reward_id,
                                !.reward_quantity = reward.quantity_available,
                                !.pin_file = IF is_tng(reward) THEN tng_pin_file(reward.name)
                                                               ELSE ""]]
    /\ UNCHANGED <<store, fk_enforced, startup, user_data, message_queue, notifier, mqtt, nrequests, nevents>>

\* Faulty variant: the points are deducted before the pin is looked up, so a
\* redemption that finds no pin has already paid.
get_tng_pin_read_after_deduction(w) ==
    /\ worker[w].pc = "pin_read"
    /\ LET me == worker[w]
           file == pin_files[me.pin_file]
           idx == first_unused(file.lines)
       IN  IF ~file.exists \/ idx = 0
           THEN /\ Finish(w, me.handler, me.sender, me.data, "no_pins", me.reward_id, "")
                /\ users' = [users EXCEPT ![me.user_id].points =
                                me.user_points - rewards[me.reward_id].points_required]
           ELSE /\ worker' = [worker EXCEPT ![w] =
                       [me EXCEPT !.pc = "pin_truncate",
                                  !.pins = mark_used(file.lines, idx),
                                  !.tng_pin = file.lines[idx][1]]]
                /\ UNCHANGED users
    /\ UNCHANGED <<rewards, transactions, configuration, pin_files, fk_enforced, startup, user_data,
                   message_queue, notifier, mqtt, nrequests, nevents>>

\* Lines 838-846 and 851-855: read the whole file, pick the first unused line.
get_tng_pin_read(w) ==
    /\ worker[w].pc = "pin_read"
    /\ LET me == worker[w]
           file == pin_files[me.pin_file]
           idx == first_unused(file.lines)
       IN  IF ~file.exists \/ idx = 0
           THEN Finish(w, me.handler, me.sender, me.data, "no_pins", me.reward_id, "")
           ELSE /\ worker' = [worker EXCEPT ![w] =
                       [me EXCEPT !.pc = "pin_truncate",
                                  !.pins = mark_used(file.lines, idx),
                                  !.tng_pin = file.lines[idx][1]]]
    /\ UNCHANGED <<store, fk_enforced, startup, user_data, message_queue, notifier, mqtt, nrequests, nevents>>

\* Line 848: open(pin_file, 'w') empties the file.
get_tng_pin_truncate(w) ==
    /\ worker[w].pc = "pin_truncate"
    /\ pin_files' = [pin_files EXCEPT ![worker[w].pin_file] = [exists |-> TRUE, lines |-> <<>>]]
    /\ worker' = [worker EXCEPT ![w].pc = "pin_write"]
    /\ UNCHANGED <<users, rewards, transactions, configuration, fk_enforced, startup, user_data,
                   message_queue, notifier, mqtt, nrequests, nevents>>

\* Lines 849-850: writelines(pins) and close put the handler's copy in the file.
get_tng_pin_write(w) ==
    /\ worker[w].pc = "pin_write"
    /\ pin_files' = [pin_files EXCEPT ![worker[w].pin_file] =
                        [exists |-> TRUE, lines |-> worker[w].pins]]
    /\ worker' = [worker EXCEPT ![w].pc = "redeem_commit1", ![w].pins = <<>>]
    /\ UNCHANGED <<users, rewards, transactions, configuration, fk_enforced, startup, user_data,
                   message_queue, notifier, mqtt, nrequests, nevents>>

\* Lines 736-738 and 786-788: the first commit writes the points and the quantity.
redeem_commit_deduction(w) ==
    /\ worker[w].pc = "redeem_commit1"
    /\ LET me == worker[w]
           reward == rewards[me.reward_id]
       IN  /\ users' = [users EXCEPT ![me.user_id].points =
                            me.user_points - reward.points_required]
           /\ rewards' = [rewards EXCEPT ![me.reward_id].quantity_available =
                            me.reward_quantity - 1]
    /\ worker' = [worker EXCEPT ![w].pc = "redeem_commit2"]
    /\ UNCHANGED <<transactions, configuration, pin_files, fk_enforced, startup, user_data,
                   message_queue, notifier, mqtt, nrequests, nevents>>

\* Faulty variant: the transaction is written over the last row of the ledger.
redeem_commit_transaction_overwrites(w) ==
    /\ worker[w].pc = "redeem_commit2"
    /\ LET me == worker[w]
           reward == rewards[me.reward_id]
       IN  /\ transactions' = [transactions EXCEPT ![Len(transactions)] =
                [user_id |-> me.user_id,
                 points_change |-> 0 - reward.points_required,
                 description |-> <<"Redeemed", "reward:">> \o reward.name]]
           /\ Finish(w, me.handler, me.sender, me.data, "redeemed", me.reward_id, me.tng_pin)
    /\ UNCHANGED <<users, rewards, configuration, pin_files, fk_enforced, startup, user_data,
                   message_queue, notifier, mqtt, nrequests, nevents>>

\* Lines 741-768 and 791-817: the second commit inserts the transaction; the
\* success message names the reward and, for a TNG reward, the pin.
redeem_commit_transaction(w) ==
    /\ worker[w].pc = "redeem_commit2"
    /\ LET me == worker[w]
           reward == rewards[me.reward_id]
       IN  /\ transactions' = Append(transactions,
                [user_id |-> me.user_id,
                 points_change |-> 0 - reward.points_required,
                 description |-> <<"Redeemed", "reward:">> \o reward.name])
           /\ Finish(w, me.handler, me.sender, me.data, "redeemed", me.reward_id, me.tng_pin)
    /\ UNCHANGED <<users, rewards, configuration, pin_files, fk_enforced, startup, user_data,
                   message_queue, notifier, mqtt, nrequests, nevents>>

\* Lines 738, 747, 788, 797 and 818-823: db.commit() raises (the store is
\* unreachable, the connection dropped); the handler logs, apologises, returns.
redeem_commit_fails(w) ==
    /\ worker[w].pc \in {"redeem_commit1", "redeem_commit2"}
    /\ Finish(w, worker[w].handler, worker[w].sender, worker[w].data, "error", 0, "")
    /\ UNCHANGED <<store, fk_enforced, startup, user_data, message_queue, notifier, mqtt, nrequests, nevents>>

----------------------------------------------------------------------------
\* Session registry: the /start command with its activate_bin parameter.

\* Lines 321-323: the holder the activation logs as deactivated, 0 when it
\* logs none.
previous_user(config_active, user) ==
    IF config_active # 0 /\ query_user_by_id(config_active) # 0
                         /\ query_user_by_id(config_active) # user
    THEN query_user_by_id(config_active)
    ELSE 0

\* Faulty variant: a sender without a row is treated as the first user.
start_binds_unknown(w) ==
    /\ worker[w].pc = "idle"
    /\ nrequests < MaxActivations
    /\ nrequests' = nrequests + 1
    /\ \E sender \in Senders, activate_bin \in BOOLEAN, config \in query_configuration_first :
        LET found == query_user_by_telegram_id(sender)
            user == IF found = 0 THEN 1 ELSE found
            active == IF config = 0 THEN 0 ELSE configuration[config].active_user_id
        IN  IF user = 0
            THEN Finish(w, "start", sender, "", "register_prompt", 0, "")
            ELSE IF ~activate_bin
            THEN Finish(w, "start", sender, "", "main_menu", 0, "")
            ELSE /\ worker' = [worker EXCEPT ![w] =
                        [IdleWorker EXCEPT !.pc = "start_commit", !.handler = "start",
                            !.sender = sender, !.user_id = user, !.config_id = config,
                            !.config_active = active,
                            !.previous_user = previous_user(active, user)]]
    /\ UNCHANGED <<store, fk_enforced, startup, user_data, message_queue, notifier, mqtt, nevents>>

\* Lines 298-330 and 339-356: load the user and the configuration row, branch.
start(w) ==
    /\ worker[w].pc = "idle"
    /\ nrequests < MaxActivations
    /\ nrequests' = nrequests + 1
    /\ \E sender \in Senders, activate_bin \in BOOLEAN, config \in query_configuration_first :
        LET user == query_user_by_telegram_id(sender)
            active == IF config = 0 THEN 0 ELSE configuration[config].active_user_id
        IN  IF user = 0
            THEN Finish(w, "start", sender, "", "register_prompt", 0, "")
            ELSE IF ~activate_bin
            THEN Finish(w, "start", sender, "", "main_menu", 0, "")
            ELSE /\ worker' = [worker EXCEPT ![w] =
                        [IdleWorker EXCEPT !.pc = "start_commit", !.handler = "start",
                            !.sender = sender, !.user_id = user, !.config_id = config,
                            !.config_active = active,
                            !.previous_user = previous_user(active, user)]]
    /\ UNCHANGED <<store, fk_enforced, startup, user_data, message_queue, notifier, mqtt, nevents>>

\* Lines 326-338: db.commit() inserts the new row, or updates the loaded row
\* when the assignment changed its active_user_id; then the welcome message.
start_commit(w) ==
    /\ worker[w].pc = "start_commit"
    /\ LET me == worker[w]
       IN  configuration' =
               IF me.config_id = 0
               THEN Append(configuration, [active_user_id |-> me.user_id])
               ELSE IF me.config_active # me.user_id
               THEN [configuration EXCEPT ![me.config_id].active_user_id = me.user_id]
               ELSE configuration
    /\ Finish(w, worker[w].handler, worker[w].sender, worker[w].data, "activated", 0, "")
    /\ UNCHANGED <<users, rewards, transactions, pin_files, fk_enforced, startup, user_data,
                   message_queue, notifier, mqtt, nrequests, nevents>>

\* Lines 331 and 357-359: db.commit() raises.
start_commit_fails(w) ==
    /\ worker[w].pc = "start_commit"
    /\ Finish(w, worker[w].handler, worker[w].sender, worker[w].data, "error", 0, "")
    /\ UNCHANGED <<store, fk_enforced, startup, user_data, message_queue, notifier, mqtt, nrequests, nevents>>

----------------------------------------------------------------------------
\* Registration flow: register_contact and collect_name.

\* The contacts a sender may share: a number nobody registered, and Bea's.
Phones == {"+60103", "+60102"}

\* Message texts as sequences of words and blanks.  Filters.text passes no
\* message without text and the chat transport sends none of blanks only.
Texts == {<<"Cy">>, <<" ", "Cy", " ">>, <<"Di", " ", "Lee">>}

lstrip(text) ==
    LET blanks == {i \in DOMAIN text : \A j \in 1..i : text[j] = " "}
    IN  SubSeq(text, Cardinality(blanks) + 1, Len(text))

rstrip(text) ==
    LET blanks == {i \in DOMAIN text : \A j \in i..Len(text) : text[j] = " "}
    IN  SubSeq(text, 1, Len(text) - Cardinality(blanks))

\* str.strip()
strip(text) == rstrip(lstrip(text))

\* Lines 381-390: load the user; one that exists is told so.
register_contact(w) ==
    /\ worker[w].pc = "idle"
    /\ nrequests < MaxRegistrationRequests
    /\ nrequests' = nrequests + 1
    /\ \E sender \in Senders, phone \in Phones :
        LET user == query_user_by_telegram_id(sender)
        IN  IF user # 0
            THEN Finish(w, "register_contact", sender, phone, "already_registered", 0, "")
            ELSE worker' = [worker EXCEPT ![w] =
                     [IdleWorker EXCEPT !.pc = "register_commit",
                         !.handler = "register_contact",
                         !.sender = sender, !.data = phone]]
    /\ UNCHANGED <<store, fk_enforced, startup, user_data, message_queue, notifier, mqtt, nevents>>

\* Faulty variant: the table has no unique columns.
unique_violation_never(telegram_id, phone_number) == FALSE

\* models.py lines 46-47: telegram_id and phone_number are unique.
unique_violation(telegram_id, phone_number) ==
    \E u \in DOMAIN users : \/ users[u].telegram_id = telegram_id
                            \/ users[u].phone_number = phone_number

\* Lines 392-401: db.add(user); db.commit().  The commit of a row whose
\* telegram id or phone number the table already has raises IntegrityError,
\* which nothing in the handler catches: the handler ends without a reply.
register_contact_commit(w) ==
    /\ worker[w].pc = "register_commit"
    /\ LET me == worker[w]
       IN  IF unique_violation(me.sender, me.data)
           THEN /\ Finish(w, me.handler, me.sender, me.data, "no_reply", 0, "")
                /\ UNCHANGED users
           ELSE /\ users' = Append(users, [telegram_id |-> me.sender,
                                           phone_number |-> me.data,
                                           name |-> <<>>, points |-> 0])
                /\ worker' = [worker EXCEPT ![w].pc = "register_step",
                                            ![w].user_id = Len(users) + 1]
    /\ UNCHANGED <<rewards, transactions, configuration, pin_files, fk_enforced, startup, user_data,
                   message_queue, notifier, mqtt, nrequests, nevents>>

\* Lines 404-409: the step is kept in context.user_data, then the request
\* for the name.
register_contact_step(w) ==
    /\ worker[w].pc = "register_step"
    /\ user_data' = [user_data EXCEPT ![worker[w].sender] = "awaiting_name"]
    /\ Finish(w, worker[w].handler, worker[w].sender, worker[w].data, "ask_name", 0, "")
    /\ UNCHANGED <<store, fk_enforced, startup, message_queue, notifier, mqtt, nrequests, nevents>>

\* Line 418: not user or 'registration_step' not in context.user_data or
\* context.user_data['registration_step'] != 'awaiting_name'
unexpected_input(user, registration_step) ==
    user = 0 \/ registration_step # "awaiting_name"

\* Lines 411-421: load the user, validate the registration step.
collect_name(w) ==
    /\ worker[w].pc = "idle"
    /\ nrequests < MaxRegistrationRequests
    /\ nrequests' = nrequests + 1
    /\ \E sender \in Senders, text \in Texts :
        LET user == query_user_by_telegram_id(sender)
        IN  IF unexpected_input(user, user_data[sender])
            THEN Finish(w, "collect_name", sender, text, "unexpected_input", 0, "")
            ELSE worker' = [worker EXCEPT ![w] =
                     [IdleWorker EXCEPT !.pc = "collect_commit",
                         !.handler = "collect_name",
                         !.sender = sender, !.data = text, !.user_id = user]]
    /\ UNCHANGED <<store, fk_enforced, startup, user_data, message_queue, notifier, mqtt, nevents>>

\* Lines 423-425: user.name = update.message.text.strip(); db.commit()
collect_name_commit(w) ==
    /\ worker[w].pc = "collect_commit"
    /\ users' = [users EXCEPT ![worker[w].user_id].name = strip(worker[w].data)]
    /\ worker' = [worker EXCEPT ![w].pc = "collect_pop"]
    /\ UNCHANGED <<rewards, transactions, configuration, pin_files, fk_enforced, startup, user_data,
                   message_queue, notifier, mqtt, nrequests, nevents>>

\* Lines 427-435: the message that registration is complete, then
\* context.user_data.pop('registration_step', None)
collect_name_pop(w) ==
    /\ worker[w].pc = "collect_pop"
    /\ user_data' = [user_data EXCEPT ![worker[w].sender] = "none"]
    /\ Finish(w, worker[w].handler, worker[w].sender, worker[w].data,
              "registration_complete", 0, "")
    /\ UNCHANGED <<store, fk_enforced, startup, message_queue, notifier, mqtt, nrequests, nevents>>

\* The process ends and initialize_bot runs again: the store is kept, the
\* requests in service, user_data and the queue are lost.
restart ==
    /\ \/ user_data # [sender \in Senders |-> "none"]
       \/ worker # [w \in Workers |-> IdleWorker]
    /\ user_data' = [sender \in Senders |-> "none"]
    /\ worker' = [w \in Workers |-> IdleWorker]
    /\ message_queue' = <<>>
    /\ UNCHANGED <<store, fk_enforced, startup, notifier, mqtt, nrequests, nevents>>

----------------------------------------------------------------------------
\* Event ingestor: MQTTClientHandler.on_message and assign_points.

\* Faulty variant: a type the table does not have is credited one point.
rubbish_points_default_one(rubbish_type) ==
    CASE rubbish_type = "plastic" -> 10
      [] rubbish_type = "metal" -> 25
      [] rubbish_type = "paper" -> 5
      [] rubbish_type = "glass" -> 15
      [] OTHER -> 1

\* Lines 1223-1231: rubbish_points.get(rubbish_type.lower(), 0)
rubbish_points(rubbish_type) ==
    CASE rubbish_type = "plastic" -> 10
      [] rubbish_type = "metal" -> 25
      [] rubbish_type = "paper" -> 5
      [] rubbish_type = "glass" -> 15
      [] OTHER -> 0

\* Payloads of the sensor topic: json is what json.loads makes of the text
\* ("invalid" raises JSONDecodeError), has_type whether the object has the
\* key, is_str whether its value is a string.
Payloads ==
    {[json |-> "object", has_type |-> TRUE, is_str |-> TRUE, rubbish_type |-> t] :
        t \in {"plastic", "metal", "paper", "glass", "Metal", "styrofoam", ""}}
    \cup {[json |-> "object", has_type |-> FALSE, is_str |-> FALSE, rubbish_type |-> ""],
          [json |-> "object", has_type |-> TRUE, is_str |-> FALSE, rubbish_type |-> "7"],
          [json |-> "array", has_type |-> FALSE, is_str |-> FALSE, rubbish_type |-> ""],
          [json |-> "invalid", has_type |-> FALSE, is_str |-> FALSE, rubbish_type |-> ""]}

\* Lines 1192-1197: what the body of on_message raises before it calls
\* assign_points: json.loads on malformed text, data.get on a value that is
\* not an object.
on_message_raises(payload) ==
    CASE payload.json = "invalid" -> "JSONDecodeError"
      [] payload.json # "object" -> "AttributeError"
      [] OTHER -> ""

\* Lines 1193-1197: rubbish_type = data.get('rubbish_type'); not rubbish_type.
reaches_assign_points(payload) ==
    /\ payload.json = "object"
    /\ payload.has_type
    /\ payload.rubbish_type # ""

\* Faulty variant: the handler catches the decoding error alone.
on_message_catches_decode_only(exception) == exception = "JSONDecodeError"

\* Lines 1202-1205: except json.JSONDecodeError, then except Exception.
on_message_catches(exception) ==
    exception \in {"JSONDecodeError", "AttributeError", "OperationalError"}

\* The line the handler logs for an exception of its body.
on_message_log(exception) ==
    IF exception = "JSONDecodeError" THEN "decode_failed" ELSE "on_message_error"

\* The subscriber is back in the network loop; an exception that leaves
\* on_message ends the thread of loop_forever.
Handled(payload, log) == [IdleMqtt EXCEPT !.payload = payload, !.log = log]

\* Lines 1185-1241: parse the payload, resolve the active user, look up the
\* points.  db_up: do the two SELECTs of assign_points reach the store.
on_message ==
    /\ mqtt.pc = "idle"
    /\ nevents < MaxEvents
    /\ nevents' = nevents + 1
    /\ \E payload \in Payloads, config \in query_configuration_first, db_up \in BOOLEAN :
        LET raised == on_message_raises(payload)
            active == IF config = 0 \/ configuration[config].active_user_id = 0 THEN 0
                      ELSE query_user_by_id(configuration[config].active_user_id)
            points == rubbish_points(lower(payload.rubbish_type))
        IN  IF raised # ""
            THEN mqtt' = IF on_message_catches(raised)
                         THEN Handled(payload, on_message_log(raised))
                         ELSE [Handled(payload, raised) EXCEPT !.pc = "dead"]
            ELSE IF ~reaches_assign_points(payload)
            THEN mqtt' = Handled(payload, "no_type")
            ELSE IF ~db_up
            THEN mqtt' = Handled(payload, "assign_error")
            ELSE IF config = 0 \/ configuration[config].active_user_id = 0
            THEN mqtt' = Handled(payload, "no_active_user")
            ELSE IF active = 0
            THEN mqtt' = Handled(payload, "user_missing")
            ELSE IF ~payload.is_str
            THEN mqtt' = Handled(payload, "assign_error")
            ELSE IF points = 0
            THEN mqtt' = Handled(payload, "unknown_type")
            ELSE mqtt' = [pc |-> "commit", payload |-> payload, log |-> "",
                          rubbish_type |-> payload.rubbish_type,
                          user_id |-> active, user_points |-> users[active].points,
                          points |-> points]
    /\ UNCHANGED <<store, fk_enforced, startup, user_data, message_queue, notifier, worker, nrequests>>

\* Faulty variant: the points are added to every row of the users table.
assign_points_commit_every_user ==
    /\ mqtt.pc = "commit"
    /\ users' = [u \in DOMAIN users |-> [users[u] EXCEPT !.points = @ + mqtt.points]]
    /\ transactions' = Append(transactions,
            [user_id |-> mqtt.user_id, points_change |-> mqtt.points,
             description |-> <<"Disposed", mqtt.rubbish_type>>])
    /\ mqtt' = [mqtt EXCEPT !.pc = "enqueue"]
    /\ UNCHANGED <<rewards, configuration, pin_files, fk_enforced, startup, user_data, message_queue,
                   notifier, worker, nrequests, nevents>>

\* Lines 1243-1254: one commit writes the balance and inserts the transaction.
assign_points_commit ==
    /\ mqtt.pc = "commit"
    /\ users' = [users EXCEPT ![mqtt.user_id].points = mqtt.user_points + mqtt.points]
    /\ transactions' = Append(transactions,
            [user_id |-> mqtt.user_id, points_change |-> mqtt.points,
             description |-> <<"Disposed", mqtt.rubbish_type>>])
    /\ mqtt' = [mqtt EXCEPT !.pc = "enqueue"]
    /\ UNCHANGED <<rewards, configuration, pin_files, fk_enforced, startup, user_data, message_queue,
                   notifier, worker, nrequests, nevents>>

\* Lines 1254 and 1271-1275: db.commit() raises; rollback, nothing is enqueued.
assign_points_commit_fails ==
    /\ mqtt.pc = "commit"
    /\ mqtt' = Handled(mqtt.payload, "assign_error")
    /\ UNCHANGED <<store, fk_enforced, startup, user_data, message_queue, notifier, worker, nrequests, nevents>>

\* Faulty variant: the notification states the balance loaded before the credit.
assign_points_enqueue_stale ==
    /\ mqtt.pc = "enqueue"
    /\ message_queue' = Append(message_queue,
            [chat_id |-> users[mqtt.user_id].telegram_id,
             text |-> <<mqtt.points, mqtt.rubbish_type, mqtt.user_points>>])
    /\ mqtt' = Handled(mqtt.payload, "assigned")
    /\ UNCHANGED <<store, fk_enforced, startup, user_data, notifier, worker, nrequests, nevents>>

\* Lines 1256-1270: the notification states the balance the expired user
\* object reloads.
assign_points_enqueue ==
    /\ mqtt.pc = "enqueue"
    /\ message_queue' = Append(message_queue,
            [chat_id |-> users[mqtt.user_id].telegram_id,
             text |-> <<mqtt.points, mqtt.rubbish_type, users[mqtt.user_id].points>>])
    /\ mqtt' = Handled(mqtt.payload, "assigned")
    /\ UNCHANGED <<store, fk_enforced, startup, user_data, notifier, worker, nrequests, nevents>>

----------------------------------------------------------------------------
\* Notification consumer: process_message_queue.

\* Faulty variant: the consumer takes the message enqueued last.
queue_get_last(queue) == Len(queue)

\* queue.Queue.get(): the position of the message that get() returns.
queue_get(queue) == 1

\* Lines 1281-1282: get() returns the next message and removes it.
process_message_queue ==
    /\ notifier.pc = "get"
    /\ message_queue # <<>>
    /\ LET i == queue_get(message_queue)
       IN  /\ notifier' = [notifier EXCEPT !.pc = "send",
                              !.chat_id = message_queue[i].chat_id,
                              !.text = message_queue[i].text]
           /\ message_queue' = [j \in 1..(Len(message_queue) - 1) |->
                                   IF j < i THEN message_queue[j] ELSE message_queue[j + 1]]
    /\ UNCHANGED <<store, fk_enforced, startup, user_data, worker, mqtt, nrequests, nevents>>

\* Faulty variant: a delivery that fails ends the consumer's loop.
send_notification_message_exits ==
    /\ notifier.pc = "send"
    /\ \E delivered \in BOOLEAN :
          notifier' = [notifier EXCEPT !.pc = IF delivered THEN "get" ELSE "exited",
                                       !.attempts = @ + 1,
                                       !.log = IF delivered THEN "sent" ELSE "failed"]
    /\ UNCHANGED <<store, fk_enforced, startup, user_data, message_queue, worker, mqtt, nrequests, nevents>>

\* Faulty variant: a failed delivery is attempted again.
send_notification_message_retry ==
    /\ notifier.pc = "send"
    /\ \E delivered \in BOOLEAN :
          notifier' = [notifier EXCEPT !.pc = IF delivered THEN "get" ELSE "send",
                                       !.attempts = @ + 1,
                                       !.log = IF delivered THEN "sent" ELSE "failed"]
    /\ UNCHANGED <<store, fk_enforced, startup, user_data, message_queue, worker, mqtt, nrequests, nevents>>

\* Lines 276-285 and 1283-1290: one call of bot.send_message; when it raises,
\* the exception is logged inside send_notification_message and the loop goes
\* on to the next get().
send_notification_message ==
    /\ notifier.pc = "send"
    /\ \E delivered \in BOOLEAN :
          notifier' = [notifier EXCEPT !.pc = "get",
                                       !.attempts = @ + 1,
                                       !.log = IF delivered THEN "sent" ELSE "failed"]
    /\ UNCHANGED <<store, fk_enforced, startup, user_data, message_queue, worker, mqtt, nrequests, nevents>>

----------------------------------------------------------------------------
\* api.py: POST /add_points.

AddPointsValues == {5, -5}

\* Lines 10-22: load the user by telegram id, add the points to the object.
add_points(w) ==
    /\ worker[w].pc = "idle"
    /\ nrequests < MaxRequests
    /\ nrequests' = nrequests + 1
    /\ \E user_id \in Senders, points \in AddPointsValues :
        LET user == query_user_by_telegram_id(user_id)
        IN  IF user = 0
            THEN Finish(w, "add_points", user_id, "", "user_not_found", 0, "")
            ELSE /\ worker' = [worker EXCEPT ![w] =
                        [IdleWorker EXCEPT !.pc = "add_commit", !.handler = "add_points",
                            !.sender = user_id, !.arg = points,
                            !.user_id = user, !.user_points = users[user].points]]
    /\ UNCHANGED <<store, fk_enforced, startup, user_data, message_queue, notifier, mqtt, nevents>>

\* transactions.user_id REFERENCES users.id: does the store take this value.
foreign_key_ok(user_id) == ~fk_enforced \/ user_id \in DOMAIN users

\* Lines 23-30: the transaction row carries the telegram id of the request as
\* its user_id; the commit writes both rows or, on a foreign key error, none.
add_points_commit(w) ==
    /\ worker[w].pc = "add_commit"
    /\ LET me == worker[w]
       IN  IF foreign_key_ok(me.sender)
           THEN /\ users' = [users EXCEPT ![me.user_id].points = me.user_points + me.arg]
                /\ transactions' = Append(transactions,
                        [user_id |-> me.sender, points_change |-> me.arg,
                         description |-> <<"Points", "added">>])
                /\ Finish(w, me.handler, me.sender, me.data, "points_added", 0, "")
           ELSE /\ UNCHANGED <<users, transactions>>
                /\ Finish(w, me.handler, me.sender, me.data, "error", 0, "")
    /\ UNCHANGED <<rewards, configuration, pin_files, fk_enforced, startup, user_data, message_queue,
                   notifier, mqtt, nrequests, nevents>>

----------------------------------------------------------------------------
\* Read-only menu actions: view_disposal_history_callback, leaderboard_callback.

HistoryLimit == 10
LeaderboardLimit == 10

\* Transaction.description.ilike("%Disposed%")
ilike_disposed(description) ==
    \E i \in DOMAIN description : lower(description[i]) = "disposed"

\* Faulty variant: the rows come back oldest first.
RECURSIVE oldest_first(_, _)
oldest_first(ids, limit) ==
    IF ids = {} \/ limit = 0 THEN <<>>
    ELSE LET oldest == CHOOSE i \in ids : \A j \in ids : i <= j
         IN  <<oldest>> \o oldest_first(ids \ {oldest}, limit - 1)

\* .order_by(Transaction.created_at.desc()).limit(n) over the rows ids.  A
\* row is stamped when it is made and rows are appended in that order, so the
\* position in the table stands for created_at.
RECURSIVE newest_first(_, _)
newest_first(ids, limit) ==
    IF ids = {} \/ limit = 0 THEN <<>>
    ELSE LET newest == CHOOSE i \in ids : \A j \in ids : j <= i
         IN  <<newest>> \o newest_first(ids \ {newest}, limit - 1)

\* Lines 476-482: the ids of the rows the history query returns for user.
disposal_history(user) ==
    newest_first({i \in DOMAIN transactions :
                     /\ transactions[i].user_id = user
                     /\ ilike_disposed(transactions[i].description)},
                 HistoryLimit)

\* Lines 462-528: load the user, run the query, show the list.
view_disposal_history_callback(w) ==
    /\ worker[w].pc = "idle"
    /\ nrequests < MaxRequests
    /\ nrequests' = nrequests + 1
    /\ \E sender \in Senders :
        LET user == query_user_by_telegram_id(sender)
            rows == IF user = 0 THEN <<>> ELSE disposal_history(user)
        IN  worker' = [worker EXCEPT ![w] =
                [IdleWorker EXCEPT !.pc = "done", !.handler = "history", !.sender = sender,
                    !.reply = IF user = 0 THEN "not_registered"
                              ELSE IF rows = <<>> THEN "no_disposals"
                              ELSE "disposal_history",
                    !.reply_list = rows]]
    /\ UNCHANGED <<store, fk_enforced, startup, user_data, message_queue, notifier, mqtt, nevents>>

\* .order_by(User.points.desc()): the orders in which the store may return
\* the users; rows with equal points come in any order.
order_by_points_desc ==
    {order \in [1..Len(users) -> DOMAIN users] :
        /\ \A i, j \in 1..Len(users) : i # j => order[i] # order[j]
        /\ \A i, j \in 1..Len(users) :
              i < j => users[order[i]].points >= users[order[j]].points}

\* .limit(n)
limit(rows, n) == SubSeq(rows, 1, IF Len(rows) < n THEN Len(rows) ELSE n)

\* Lines 1008-1057: the ten users with the most points, as the store orders them.
leaderboard_callback(w) ==
    /\ worker[w].pc = "idle"
    /\ nrequests < MaxRequests
    /\ nrequests' = nrequests + 1
    /\ \E sender \in Senders, order \in order_by_points_desc :
        LET top_users == limit(order, LeaderboardLimit)
        IN  worker' = [worker EXCEPT ![w] =
                [IdleWorker EXCEPT !.pc = "done", !.handler = "leaderboard",
                    !.sender = sender,
                    !.reply = IF top_users = <<>> THEN "no_users" ELSE "leaderboard",
                    !.reply_list = top_users]]
    /\ UNCHANGED <<store, fk_enforced, startup, user_data, message_queue, notifier, mqtt, nevents>>

----------------------------------------------------------------------------
\* The other menu actions and the /active_user command.

\* Table events: the bot reads it and never writes it.
Events ==
    <<[name |-> <<"Environment", "Day", "Lucky", "Draw">>, date |-> 5],
      [name |-> <<"Recycling", "Workshop">>, date |-> 10]>>

\* Callback data of the event buttons, one of no event and one that does not parse.
EventData == {<<"event", "1">>, <<"event", "2">>, <<"event", "5">>, <<"event", "x">>}

\* db.query(Event).order_by(Event.date).all()
RECURSIVE events_by_date(_)
events_by_date(ids) ==
    IF ids = {} THEN <<>>
    ELSE LET first == CHOOSE e \in ids : \A f \in ids : Events[e].date <= Events[f].date
         IN  <<first>> \o events_by_date(ids \ {first})

\* The handler answers in the chat and returns; number and list are what the
\* answer shows.
Answer(w, handler, sender, data, kind, number, list) ==
    worker' = [worker EXCEPT ![w] =
        [IdleWorker EXCEPT !.pc = "done", !.handler = handler, !.sender = sender,
                           !.data = data, !.reply = kind, !.arg = number,
                           !.reply_list = list]]

\* Faulty variant: the handler clears the sender's registration step.
check_balance_callback_pops_step(w) ==
    /\ worker[w].pc = "idle"
    /\ nrequests < MaxRequests
    /\ nrequests' = nrequests + 1
    /\ \E sender \in Senders :
        LET user == query_user_by_telegram_id(sender)
        IN  /\ IF user = 0
               THEN Answer(w, "check_balance", sender, "", "not_registered", 0, <<>>)
               ELSE Answer(w, "check_balance", sender, "", "balance", users[user].points, <<>>)
            /\ user_data' = [user_data EXCEPT ![sender] = "none"]
    /\ UNCHANGED <<store, fk_enforced, startup, message_queue, notifier, mqtt, nevents>>

\* Lines 531-590: the balance of the sender, or the hint to register.
check_balance_callback(w) ==
    /\ worker[w].pc = "idle"
    /\ nrequests < MaxRequests
    /\ nrequests' = nrequests + 1
    /\ \E sender \in Senders :
        LET user == query_user_by_telegram_id(sender)
        IN  IF user = 0
            THEN Answer(w, "check_balance", sender, "", "not_registered", 0, <<>>)
            ELSE Answer(w, "check_balance", sender, "", "balance", users[user].points, <<>>)
    /\ UNCHANGED <<store, fk_enforced, startup, user_data, message_queue, notifier, mqtt, nevents>>

\* Lines 593-648: db.query(Reward).all() as a list of buttons.
redeem_rewards_callback(w) ==
    /\ worker[w].pc = "idle"
    /\ nrequests < MaxRequests
    /\ nrequests' = nrequests + 1
    /\ \E sender \in Senders :
        IF rewards = <<>>
        THEN Answer(w, "redeem_rewards", sender, "", "no_rewards", 0, <<>>)
        ELSE Answer(w, "redeem_rewards", sender, "", "rewards_menu", 0,
                    [i \in DOMAIN rewards |-> i])
    /\ UNCHANGED <<store, fk_enforced, startup, user_data, message_queue, notifier, mqtt, nevents>>

\* Lines 857-906: the events in the order of their dates.
view_events(w) ==
    /\ worker[w].pc = "idle"
    /\ nrequests < MaxRequests
    /\ nrequests' = nrequests + 1
    /\ \E sender \in Senders :
        IF Events = <<>>
        THEN Answer(w, "view_events", sender, "", "no_events", 0, <<>>)
        ELSE Answer(w, "view_events", sender, "", "events_menu", 0,
                    events_by_date(DOMAIN Events))
    /\ UNCHANGED <<store, fk_enforced, startup, user_data, message_queue, notifier, mqtt, nevents>>

\* Lines 908-1006: the event of the button, or that there is none.
event_details(w) ==
    /\ worker[w].pc = "idle"
    /\ nrequests < MaxRequests
    /\ nrequests' = nrequests + 1
    /\ \E sender \in Senders, data \in EventData :
        LET event_id == parse_int(data[2])
        IN  IF event_id = <<>>
            THEN Answer(w, "event_details", sender, data[2], "invalid_event", 0, <<>>)
            ELSE IF event_id[1] \notin DOMAIN Events
            THEN Answer(w, "event_details", sender, data[2], "event_not_found", 0, <<>>)
            ELSE Answer(w, "event_details", sender, data[2], "event", event_id[1], <<>>)
    /\ UNCHANGED <<store, fk_enforced, startup, user_data, message_queue, notifier, mqtt, nevents>>

\* Lines 1059-1090: the main menu again.
main_menu_callback(w) ==
    /\ worker[w].pc = "idle"
    /\ nrequests < MaxRequests
    /\ nrequests' = nrequests + 1
    /\ \E sender \in Senders :
        Answer(w, "main_menu", sender, "", "main_menu", 0, <<>>)
    /\ UNCHANGED <<store, fk_enforced, startup, user_data, message_queue, notifier, mqtt, nevents>>

\* Lines 364-379: the user that the configuration row references.
active_user(w) ==
    /\ worker[w].pc = "idle"
    /\ nrequests < MaxRequests
    /\ nrequests' = nrequests + 1
    /\ \E sender \in Senders, config \in query_configuration_first :
        LET active == IF config = 0 THEN 0
                      ELSE query_user_by_id(configuration[config].active_user_id)
        IN  IF active = 0
            THEN Answer(w, "active_user", sender, "", "no_active_user", 0, <<>>)
            ELSE Answer(w, "active_user", sender, "", "active_user", active, <<>>)
    /\ UNCHANGED <<store, fk_enforced, startup, user_data, message_queue, notifier, mqtt, nevents>>

----------------------------------------------------------------------------
Next ==
    \/ \E w \in Workers : webhook_handler_return(w)
    \/ \E w \in Workers : process_reward_selection(w)
    \/ \E w \in Workers : redeem_load_reward(w)
    \/ \E w \in Workers : get_tng_pin_read(w)
    \/ \E w \in Workers : get_tng_pin_truncate(w)
    \/ \E w \in Workers : get_tng_pin_write(w)
    \/ \E w \in Workers : redeem_commit_deduction(w)
    \/ \E w \in Workers : redeem_commit_transaction(w)
    \/ \E w \in Workers : redeem_commit_fails(w)
    \/ \E w \in Workers : (nrequests < MaxRequests /\ start(w))
    \/ \E w \in Workers : start_commit(w)
    \/ \E w \in Workers : start_commit_fails(w)
    \/ \E w \in Workers : add_points(w)
    \/ \E w \in Workers : add_points_commit(w)
    \/ \E w \in Workers : view_disposal_history_callback(w)
    \/ \E w \in Workers : leaderboard_callback(w)
    \/ (nevents < MaxEventsAmongRequests /\ on_message)
    \/ assign_points_commit
    \/ assign_points_commit_fails
    \/ assign_points_enqueue
    \/ process_message_queue
    \/ send_notification_message

Spec == Init /\ [][Next]_vars

\* The web workers alone (chat handlers and the API), the sensor silent.
NextRequests ==
    \/ \E w \in Workers : webhook_handler_return(w)
    \/ \E w \in Workers : process_reward_selection(w)
    \/ \E w \in Workers : redeem_load_reward(w)
    \/ \E w \in Workers : get_tng_pin_read(w)
    \/ \E w \in Workers : get_tng_pin_truncate(w)
    \/ \E w \in Workers : get_tng_pin_write(w)
    \/ \E w \in Workers : redeem_commit_deduction(w)
    \/ \E w \in Workers : redeem_commit_transaction(w)
    \/ \E w \in Workers : redeem_commit_fails(w)
    \/ \E w \in Workers : (nrequests < MaxRequests /\ start(w))
    \/ \E w \in Workers : start_commit(w)
    \/ \E w \in Workers : start_commit_fails(w)
    \/ \E w \in Workers : add_points(w)
    \/ \E w \in Workers : add_points_commit(w)
    \/ \E w \in Workers : view_disposal_history_callback(w)
    \/ \E w \in Workers : leaderboard_callback(w)

SpecRequests == Init /\ [][NextRequests]_vars

\* The bin: the session registry (/start), the sensor and the notification
\* consumer, from a store whose configuration table is empty, names a user,
\* or, where foreign keys are not enforced, names a user that was removed.
ConfigurationSeeds ==
    {<<>>, <<[active_user_id |-> 2]>>}
    \cup (IF fk_enforced THEN {} ELSE {<<[active_user_id |-> 3]>>})

InitBin ==
    /\ users = SeedUsers
    /\ rewards = SeedRewards
    /\ transactions = SeedTransactions
    /\ fk_enforced \in BOOLEAN
    /\ startup = Started
    /\ user_data = [sender \in Senders |-> "none"]
    /\ configuration \in ConfigurationSeeds
    /\ pin_files = SeedPinFiles
    /\ message_queue = <<>>
    /\ worker = [w \in Workers |-> IdleWorker]
    /\ notifier = IdleNotifier
    /\ mqtt = IdleMqtt
    /\ nrequests = 0
    /\ nevents = 0

NextBin ==
    \/ \E w \in Workers : webhook_handler_return(w)
    \/ \E w \in Workers : start(w)
    \/ \E w \in Workers : start_commit(w)
    \/ \E w \in Workers : start_commit_fails(w)
    \/ on_message
    \/ assign_points_commit
    \/ assign_points_commit_fails
    \/ assign_points_enqueue
    \/ process_message_queue
    \/ send_notification_message

SpecBin == InitBin /\ [][NextBin]_vars

\* The sensor and the notification consumer alone, the web workers silent.
NextSensor ==
    \/ on_message
    \/ assign_points_commit
    \/ assign_points_commit_fails
    \/ assign_points_enqueue
    \/ process_message_queue
    \/ send_notification_message

SpecSensor == InitBin /\ [][NextSensor]_vars

\* The same under a scheduler that lets the consumer thread run: a step of
\* the loop of process_message_queue that can be taken is taken, and
\* bot.send_message returns or raises.
SpecSensorFair ==
    /\ InitBin
    /\ [][NextSensor]_vars
    /\ WF_vars(process_message_queue)
    /\ WF_vars(send_notification_message)

\* A reward of an amount that has no pin file.
RM50Reward ==
    [name |-> <<"TNG", "Pin", "RM50">>, points_required |-> 25, quantity_available |-> 1]

\* One redemption against stores of many shapes: each reward in stock or
\* sold out, with or without the RM50 reward, the RM5 file with an unused pin
\* or with none.
InitStock ==
    /\ users = SeedUsers
    /\ \E sold_out \in SUBSET DOMAIN SeedRewards :
          LET base == [r \in DOMAIN SeedRewards |->
                          IF r \in sold_out
                          THEN [SeedRewards[r] EXCEPT !.quantity_available = 0]
                          ELSE SeedRewards[r]]
          IN  rewards \in {base, Append(base, RM50Reward)}
    /\ transactions = SeedTransactions
    /\ configuration = <<[active_user_id |-> 2]>>
    /\ \E lines \in {SeedPinFiles["tng_pins_rm5.txt"].lines, << <<"#USED#", "P0">> >>} :
          pin_files = [SeedPinFiles EXCEPT !["tng_pins_rm5.txt"].lines = lines]
    /\ fk_enforced \in BOOLEAN
    /\ startup = Started
    /\ user_data = [sender \in Senders |-> "none"]
    /\ message_queue = <<>>
    /\ worker = [w \in Workers |-> IdleWorker]
    /\ notifier = IdleNotifier
    /\ mqtt = IdleMqtt
    /\ nrequests = 0
    /\ nevents = 0

NextStock ==
    \E w \in Workers :
        \/ (nrequests < MaxStockRequests /\ process_reward_selection(w))
        \/ redeem_load_reward(w)
        \/ get_tng_pin_read(w)
        \/ get_tng_pin_truncate(w)
        \/ get_tng_pin_write(w)
        \/ redeem_commit_deduction(w)
        \/ redeem_commit_transaction(w)
        \/ redeem_commit_fails(w)
        \/ webhook_handler_return(w)

SpecStock == InitStock /\ [][NextStock]_vars

\* The registration flow: /start, the contact and the name, and restarts of
\* the process.
NextRegistration ==
    \/ \E w \in Workers :
          \/ start(w)
          \/ start_commit(w)
          \/ start_commit_fails(w)
          \/ register_contact(w)
          \/ register_contact_commit(w)
          \/ register_contact_step(w)
          \/ collect_name(w)
          \/ collect_name_commit(w)
          \/ collect_name_pop(w)
          \/ webhook_handler_return(w)
    \/ restart

SpecRegistration == Init /\ [][NextRegistration]_vars

\* Activations beside the sensor, the consumer silent.
NextBinding ==
    \/ \E w \in Workers :
          \/ (nrequests < MaxRequests /\ start(w))
          \/ start_commit(w)
          \/ start_commit_fails(w)
          \/ webhook_handler_return(w)
    \/ (nevents < MaxEventsAmongRequests /\ on_message)
    \/ assign_points_commit
    \/ assign_points_commit_fails
    \/ assign_points_enqueue

SpecBinding == InitBin /\ [][NextBinding]_vars

\* The menu and the /active_user command, for senders of every registration
\* state: 103 has no row, or has shared a phone and is asked for the name.
InitMenu ==
    /\ \E awaiting \in BOOLEAN :
          /\ users = IF awaiting
                     THEN Append(SeedUsers, [telegram_id |-> 103, phone_number |-> "+60103",
                                             name |-> <<>>, points |-> 0])
                     ELSE SeedUsers
          /\ user_data = [sender \in Senders |->
                             IF awaiting /\ sender = 103 THEN "awaiting_name" ELSE "none"]
    /\ rewards = SeedRewards
    /\ transactions = SeedTransactions
    /\ fk_enforced \in BOOLEAN
    /\ startup = Started
    /\ configuration \in ConfigurationSeeds
    /\ pin_files = SeedPinFiles
    /\ message_queue = <<>>
    /\ worker = [w \in Workers |-> IdleWorker]
    /\ notifier = IdleNotifier
    /\ mqtt = IdleMqtt
    /\ nrequests = 0
    /\ nevents = 0

NextMenu ==
    \E w \in Workers :
        \/ check_balance_callback(w)
        \/ redeem_rewards_callback(w)
        \/ view_events(w)
        \/ event_details(w)
        \/ leaderboard_callback(w)
        \/ view_disposal_history_callback(w)
        \/ main_menu_callback(w)
        \/ active_user(w)
        \/ webhook_handler_return(w)

SpecMenu == InitMenu /\ [][NextMenu]_vars

\* Startup: initialize_bot, MQTTClientHandler.setup_client and the client's
\* network loop.

RestUnchanged ==
    UNCHANGED <<store, fk_enforced, user_data, message_queue, notifier, worker, mqtt,
                nrequests, nevents>>

\* Lines 1360-1365: the process begins; whether TOKEN, BOT_USERNAME and
\* WEBHOOK_URL are all set is fixed by the environment.
NotStarted(parameters) ==
    [pc |-> "init_db", parameters |-> parameters, handlers |-> FALSE, loop |-> FALSE,
     connection |-> "none", subscribed |-> FALSE, consumer |-> FALSE, losses |-> 0]

\* Lines 1298-1303: init_db(); when it raises initialize_bot returns and
\* __main__ goes on to app.run.
initialize_bot_init_db ==
    /\ startup.pc = "init_db"
    /\ \E raised \in BOOLEAN :
          startup' = [startup EXCEPT !.pc = IF raised THEN "serving" ELSE "parameters"]
    /\ RestUnchanged

\* Lines 1309-1330: without the parameters initialize_bot returns; with them
\* the handlers are added to the dispatcher.
initialize_bot_add_handlers ==
    /\ startup.pc = "parameters"
    /\ startup' = IF startup.parameters
                  THEN [startup EXCEPT !.pc = "set_webhook", !.handlers = TRUE]
                  ELSE [startup EXCEPT !.pc = "serving"]
    /\ RestUnchanged

\* Lines 1333-1338: set_webhook; when it raises initialize_bot returns.
initialize_bot_set_webhook ==
    /\ startup.pc = "set_webhook"
    /\ \E raised \in BOOLEAN :
          startup' = [startup EXCEPT !.pc = IF raised THEN "serving" ELSE "setup_client"]
    /\ RestUnchanged

\* Lines 1128-1172 and 1341-1353: the client is configured and connect() is
\* called.  What the configuration raises (tls_set on a missing file) leaves
\* the constructor and makes initialize_bot return; what connect() raises is
\* logged and setup_client returns before the loop thread is started; after
\* a connect() that succeeded the thread of loop_forever is started.
setup_client ==
    /\ startup.pc = "setup_client"
    /\ \E outcome \in {"raised", "connect_failed", "connected"} :
          startup' =
              CASE outcome = "raised" -> [startup EXCEPT !.pc = "serving"]
                [] outcome = "connect_failed" ->
                       [startup EXCEPT !.pc = "start_consumer", !.connection = "failed"]
                [] outcome = "connected" ->
                       [startup EXCEPT !.pc = "start_consumer", !.connection = "connected",
                                       !.loop = TRUE]
    /\ RestUnchanged

\* Lines 1355-1358: the thread of process_message_queue is started and
\* initialize_bot returns.
initialize_bot_start_consumer ==
    /\ startup.pc = "start_consumer"
    /\ startup' = [startup EXCEPT !.pc = "serving", !.consumer = TRUE]
    /\ RestUnchanged

\* Lines 1174-1183: the loop thread receives the broker's acknowledgement
\* and calls on_connect with rc = 0, which subscribes to the topic.
on_connect ==
    /\ startup.loop
    /\ startup.connection = "connected"
    /\ ~startup.subscribed
    /\ startup' = [startup EXCEPT !.subscribed = TRUE]
    /\ RestUnchanged

\* The transport to the broker fails; the session and its subscription go
\* with it (the client is created with a clean session, line 1131).
connection_lost ==
    /\ startup.connection = "connected"
    /\ startup.losses < MaxLosses
    /\ startup' = [startup EXCEPT !.connection = "lost", !.subscribed = FALSE,
                                  !.losses = @ + 1]
    /\ RestUnchanged

\* Line 1170: client.loop_forever in its thread connects again after a
\* connection that was lost, for as long as the thread runs.
loop_forever_reconnect ==
    /\ startup.loop
    /\ startup.connection = "lost"
    /\ startup' = [startup EXCEPT !.connection = "connected"]
    /\ RestUnchanged

\* app.run is serving the webhook and the dispatcher has handlers.
Serving == startup.pc = "serving" /\ startup.handlers

\* The broker delivers the messages of the topic to the client.
Subscribed == startup.loop /\ startup.connection = "connected" /\ startup.subscribed

InitStartup ==
    /\ users = SeedUsers
    /\ rewards = SeedRewards
    /\ transactions = SeedTransactions
    /\ configuration = <<[active_user_id |-> 2]>>
    /\ pin_files = SeedPinFiles
    /\ fk_enforced \in BOOLEAN
    /\ \E parameters \in BOOLEAN : startup = NotStarted(parameters)
    /\ user_data = [sender \in Senders |-> "none"]
    /\ message_queue = <<>>
    /\ worker = [w \in Workers |-> IdleWorker]
    /\ notifier = IdleNotifier
    /\ mqtt = IdleMqtt
    /\ nrequests = 0
    /\ nevents = 0

\* The process from its start: the startup, then the entry command on the
\* web workers, the sensor while the client is subscribed and the consumer
\* once its thread was started.
NextStartup ==
    \/ initialize_bot_init_db
    \/ initialize_bot_add_handlers
    \/ initialize_bot_set_webhook
    \/ setup_client
    \/ initialize_bot_start_consumer
    \/ on_connect
    \/ connection_lost
    \/ loop_forever_reconnect
    \/ \E w \in Workers :
          \/ (Serving /\ nrequests < MaxRequests /\ start(w))
          \/ start_commit(w)
          \/ start_commit_fails(w)
          \/ webhook_handler_return(w)
    \/ (Subscribed /\ nevents < MaxEventsAmongRequests /\ on_message)
    \/ assign_points_commit
    \/ assign_points_commit_fails
    \/ assign_points_enqueue
    \/ (startup.consumer /\ process_message_queue)
    \/ send_notification_message

SpecStartup == InitStartup /\ [][NextStartup]_vars

\* The same under a scheduler that lets the main thread and the loop thread
\* run, with a broker that accepts the connection again after a loss.
SpecStartupFair ==
    /\ InitStartup
    /\ [][NextStartup]_vars
    /\ WF_vars(initialize_bot_init_db)
    /\ WF_vars(initialize_bot_add_handlers)
    /\ WF_vars(initialize_bot_set_webhook)
    /\ WF_vars(setup_client)
    /\ WF_vars(initialize_bot_start_consumer)
    /\ WF_vars(on_connect)
    /\ WF_vars(loop_forever_reconnect)

\* Every handler of the bot beside the sensor, the consumer silent.
Budget == nrequests + nevents < MaxOperations

NextLedger ==
    \/ \E w \in Workers :
          \/ (Budget /\ start(w))
          \/ start_commit(w)
          \/ start_commit_fails(w)
          \/ (Budget /\ register_contact(w))
          \/ register_contact_commit(w)
          \/ register_contact_step(w)
          \/ (Budget /\ collect_name(w))
          \/ collect_name_commit(w)
          \/ collect_name_pop(w)
          \/ (Budget /\ process_reward_selection(w))
          \/ redeem_load_reward(w)
          \/ get_tng_pin_read(w)
          \/ get_tng_pin_truncate(w)
          \/ get_tng_pin_write(w)
          \/ redeem_commit_deduction(w)
          \/ redeem_commit_transaction(w)
          \/ redeem_commit_fails(w)
          \/ (Budget /\ check_balance_callback(w))
          \/ (Budget /\ redeem_rewards_callback(w))
          \/ (Budget /\ view_events(w))
          \/ (Budget /\ event_details(w))
          \/ (Budget /\ leaderboard_callback(w))
          \/ (Budget /\ view_disposal_history_callback(w))
          \/ (Budget /\ main_menu_callback(w))
          \/ (Budget /\ active_user(w))
          \/ webhook_handler_return(w)
    \/ (Budget /\ on_message)
    \/ assign_points_commit
    \/ assign_points_commit_fails
    \/ assign_points_enqueue

SpecLedger == Init /\ [][NextLedger]_vars

\* The read-only menu actions over stores of many shapes.
MaxRun == 10          \* consecutive disposals of one user in a transaction table
MaxUsers == 3         \* rows of a users table

\* The transactions a table is made of: a disposal by Ali, a disposal by Bea,
\* Ali's redemption of the Tote Bag, and Ali's redemption of a reward whose
\* name has the word the history query looks for.
HistoryRows ==
    {[user_id |-> 1, points_change |-> 10, description |-> <<"Disposed", "plastic">>],
     [user_id |-> 2, points_change |-> 25, description |-> <<"Disposed", "metal">>],
     [user_id |-> 1, points_change |-> -10,
      description |-> <<"Redeemed", "reward:", "Tote", "Bag">>],
     [user_id |-> 1, points_change |-> -10,
      description |-> <<"Redeemed", "reward:", "Disposed", "Cup">>]}

\* No row or one row.
HistoryEnds == {<<>>} \cup {<<row>> : row \in HistoryRows}

\* Transaction tables: a run of Ali's disposals between two ends.
HistoryInputs ==
    {old \o [i \in 1..n |-> [user_id |-> 1, points_change |-> 5,
                             description |-> <<"Disposed", "paper">>]] \o new :
        old \in HistoryEnds, n \in 0..MaxRun, new \in HistoryEnds}

\* Users tables of two to MaxUsers rows with balances of 10 or 25 points.
UserTables ==
    UNION {[1..n -> {10, 25}] : n \in 2..MaxUsers}

UserRow(id, points) ==
    [telegram_id |-> 100 + id,
     phone_number |-> IF id = 1 THEN "+60101" ELSE IF id = 2 THEN "+60102" ELSE "+60103",
     name |-> IF id = 1 THEN <<"Ali">> ELSE IF id = 2 THEN <<"Bea">> ELSE <<"Cal">>,
     points |-> points]

InitHistory ==
    /\ \/ /\ users = SeedUsers
          /\ transactions \in HistoryInputs
       \/ /\ \E balances \in UserTables :
                users = [id \in DOMAIN balances |-> UserRow(id, balances[id])]
          /\ transactions = SeedTransactions
    /\ rewards = Append(SeedRewards,
            [name |-> <<"Disposed", "Cup">>, points_required |-> 10, quantity_available |-> 1])
    /\ configuration = <<[active_user_id |-> 2]>>
    /\ pin_files = SeedPinFiles
    /\ fk_enforced \in BOOLEAN
    /\ startup = Started
    /\ user_data = [sender \in Senders |-> "none"]
    /\ message_queue = <<>>
    /\ worker = [w \in Workers |-> IdleWorker]
    /\ notifier = IdleNotifier
    /\ mqtt = IdleMqtt
    /\ nrequests = 0
    /\ nevents = 0

NextHistory ==
    \/ \E w \in Workers : webhook_handler_return(w)
    \/ \E w \in Workers : view_disposal_history_callback(w)
    \/ \E w \in Workers : leaderboard_callback(w)

SpecHistory == InitHistory /\ [][NextHistory]_vars

----------------------------------------------------------------------------
\* What the claims speak of.

\* The sum of points_change over the transactions of user row u.
LedgerSum(u) ==
    LET Mine(t) == t.user_id = u
        mine == SelectSeq(transactions, Mine)
    IN  SumSeq([i \in DOMAIN mine |-> mine[i].points_change])

\* The redemption transactions that name reward r.
RedemptionsOf(r) ==
    {i \in DOMAIN transactions :
        transactions[i].description = <<"Redeemed", "reward:">> \o rewards[r].name}

\* The lines of a pin file that carry the used mark.
UsedLines(f) ==
    {i \in DOMAIN pin_files[f].lines :
        pin_files[f].lines[i] # <<>> /\ Head(pin_files[f].lines[i]) = "#USED#"}

\* The workers whose reply is still on display, by kind of reply.
Showing(kinds) == {w \in Workers : worker[w].pc = "done" /\ worker[w].reply \in kinds}

\* Every request taken so far is a redemption whose reply is on display:
\* nothing is in flight and nothing else has run.
OnlyRedemptionsShown(kinds) ==
    /\ nrequests = Cardinality(Showing(kinds))
    /\ \A w \in Showing(kinds) : worker[w].handler = "redeem"

\* Worker w takes a step of the request it serves.
Steps(w) == worker'[w] # worker[w]

\* C1: each user's balance equals the sum of that user's transaction deltas,
\* in every committed state of the store.
BalanceEqualsLedger == \A u \in DOMAIN users : users[u].points = LedgerSum(u)

\* C2: no pin is issued to two successful redemptions: two success messages
\* on display never name the same pin.
NoPinIssuedTwice ==
    \A w1, w2 \in Showing({"redeemed"}) :
        (w1 # w2 /\ worker[w1].reply_pin # "") => worker[w1].reply_pin # worker[w2].reply_pin

\* C3: two redemptions of the RM5 reward that both passed the balance and
\* stock checks while its file held one unused pin: exactly one succeeds and
\* the other is told that no pins are available.
OneWinnerForLastPin ==
    (/\ OnlyRedemptionsShown({"redeemed", "no_pins"})
     /\ Showing({"redeemed", "no_pins"}) = Workers
     /\ \A w \in Workers : worker[w].reply_reward = 1)
    => Cardinality(Showing({"redeemed"})) = 1

\* C4: after two redemption calls for the RM5 reward with one unused pin
\* left have both finished, the store shows the quantity lower by exactly 1,
\* exactly one new redemption transaction and exactly one pin newly used.
OneRedemptionInStore ==
    (/\ OnlyRedemptionsShown({"redeemed", "no_pins"})
     /\ Showing({"redeemed", "no_pins"}) = Workers
     /\ \A w \in Workers : worker[w].reply_reward = 1)
    => /\ rewards[1].quantity_available = SeedRewards[1].quantity_available - 1
       /\ Cardinality(RedemptionsOf(1)) = 1
       /\ Cardinality(UsedLines("tng_pins_rm5.txt")) = 2

\* The replies by which a redemption is refused.
RefusalKinds == {"not_registered", "invalid_selection", "invalid_reward",
                 "insufficient_points", "out_of_stock", "no_pins"}

\* C5: quantity_available is never negative; after redemptions that each
\* reported success or a refusal, it is lower by exactly the number of
\* successes for that reward.
QuantityCountsSuccesses ==
    /\ \A r \in DOMAIN rewards : rewards[r].quantity_available >= 0
    /\ OnlyRedemptionsShown(RefusalKinds \cup {"redeemed"}) =>
        \A r \in DOMAIN rewards :
            rewards[r].quantity_available =
                SeedRewards[r].quantity_available
                - Cardinality({w \in Showing({"redeemed"}) : worker[w].reply_reward = r})

\* C6: a redemption whose commit fails leaves no consumed pin, no deducted
\* balance, no decremented quantity and no redemption transaction.
FailedRedemptionLeavesNothing ==
    (/\ nrequests = 1
     /\ \E w \in Showing({"error"}) : worker[w].handler = "redeem")
    => /\ users = SeedUsers
       /\ rewards = SeedRewards
       /\ transactions = SeedTransactions
       /\ pin_files = SeedPinFiles

\* The steps of a redemption that come before its first write leave the
\* store alone.
RedeemReadsOnly(w) ==
    (/\ Steps(w)
     /\ worker[w].pc \in {"idle", "redeem_reward", "pin_read"}
     /\ worker'[w].handler = "redeem")
    => store' = store

\* C7: a redemption by a user whose loaded balance is below the reward's
\* points_required is refused as insufficient and changes nothing in the
\* store.
InsufficientBalanceRefused ==
    [][\A w \in Workers :
        /\ RedeemReadsOnly(w)
        /\ (/\ Steps(w)
            /\ worker[w].pc = "redeem_reward"
            /\ worker[w].arg \in DOMAIN rewards
            /\ worker[w].user_points < rewards[worker[w].arg].points_required)
           => /\ worker'[w].pc = "done"
              /\ worker'[w].reply = "insufficient_points"
              /\ store' = store]_vars

InsufficientBalanceSeen ==
    \E w \in Showing({"insufficient_points"}) : \E u \in DOMAIN users :
        /\ users[u].telegram_id = worker[w].sender
        /\ users[u].points < rewards[worker[w].reply_reward].points_required

\* Pin file f offers no line to hand out.
NoUnusedPin(f) ==
    \/ ~pin_files[f].exists
    \/ \A i \in DOMAIN pin_files[f].lines :
          \/ pin_files[f].lines[i] = <<>>
          \/ Head(pin_files[f].lines[i]) = "#USED#"

\* C8: a redemption of a TNG reward that finds no unused pin for that reward
\* (no file for its name, a missing file, or a file without an unused line)
\* is told that no pins are available; balance, quantity and transactions
\* do not change.
PoolExhaustedRefused ==
    [][\A w \in Workers :
        /\ RedeemReadsOnly(w)
        /\ (/\ Steps(w)
            /\ worker[w].pc = "pin_read"
            /\ NoUnusedPin(worker[w].pin_file))
           => /\ worker'[w].pc = "done"
              /\ worker'[w].reply = "no_pins"
              /\ worker'[w].reply_reward = worker[w].reward_id
              /\ store' = store]_vars

PoolExhaustedSeen ==
    \E w \in Showing({"no_pins"}) : \E u \in DOMAIN users :
        LET reward == rewards[worker[w].reply_reward]
        IN  /\ tng_pin_file(reward.name) # ""
            /\ NoUnusedPin(tng_pin_file(reward.name))
            /\ users[u].telegram_id = worker[w].sender
            /\ users[u].points >= reward.points_required
            /\ reward.quantity_available > 0

\* C9: a redemption of a reward whose quantity_available is <= 0, by a user
\* whose loaded balance covers it, is refused as out of stock and changes
\* nothing in the store.
OutOfStockRefused ==
    [][\A w \in Workers :
        /\ RedeemReadsOnly(w)
        /\ (/\ Steps(w)
            /\ worker[w].pc = "redeem_reward"
            /\ worker[w].arg \in DOMAIN rewards
            /\ worker[w].user_points >= rewards[worker[w].arg].points_required
            /\ rewards[worker[w].arg].quantity_available <= 0)
           => /\ worker'[w].pc = "done"
              /\ worker'[w].reply = "out_of_stock"
              /\ store' = store]_vars

OutOfStockSeen ==
    \E w \in Showing({"out_of_stock"}) : \E u \in DOMAIN users :
        /\ users[u].telegram_id = worker[w].sender
        /\ users[u].points >= rewards[worker[w].reply_reward].points_required
        /\ rewards[worker[w].reply_reward].quantity_available <= 0

\* No User row carries telegram id tg.
Unregistered(tg) == \A u \in DOMAIN users : users[u].telegram_id # tg

\* C10: a redemption request from a sender with no User record, or for a
\* reward id that no reward has, gets a guidance message and changes nothing
\* in the store, the session binding included.
NotFoundRefused ==
    [][\A w \in Workers :
        /\ RedeemReadsOnly(w)
        /\ (/\ Steps(w)
            /\ worker[w].pc = "idle"
            /\ worker'[w].handler = "redeem"
            /\ Unregistered(worker'[w].sender))
           => /\ worker'[w].pc = "done"
              /\ worker'[w].reply = IF worker'[w].data = "x" THEN "invalid_selection"
                                                             ELSE "not_registered"
              /\ store' = store
        /\ (/\ Steps(w)
            /\ worker[w].pc = "redeem_reward"
            /\ worker[w].arg \notin DOMAIN rewards)
           => /\ worker'[w].pc = "done"
              /\ worker'[w].reply = "invalid_reward"
              /\ store' = store]_vars

NotFoundSeen ==
    /\ \E w \in Showing({"not_registered"}) : Unregistered(worker[w].sender)
    /\ \E w \in Showing({"invalid_reward"}) : worker[w].data = "5"

----------------------------------------------------------------------------
\* Sensor events.

\* The categories of the points table and the value of each.
TableValue(c) ==
    CASE c = "plastic" -> 10
      [] c = "metal" -> 25
      [] c = "paper" -> 5
      [] c = "glass" -> 15

\* The subscriber takes a message off the topic in this step.
Receives == nevents' = nevents + 1

\* This step leaves the tables, the pin files and the queue as they are.
NothingCredited == store' = store /\ message_queue' = message_queue

\* C11: for a recognised category c and an active user u, the commit of the
\* credit raises u's balance by exactly the table value of c and appends
\* exactly one transaction of u with that delta and a description naming c;
\* the step after it enqueues exactly one notification for u.
CreditRaisesByTableValue ==
    [][/\ (/\ mqtt.pc = "commit"
            /\ mqtt'.pc = "enqueue"
            /\ mqtt.payload.rubbish_type \in {"plastic", "metal", "paper", "glass"})
           => LET u == mqtt.user_id
                  c == mqtt.payload.rubbish_type
              IN  /\ users'[u].points = users[u].points + TableValue(c)
                  /\ \A v \in DOMAIN users : v # u => users'[v] = users[v]
                  /\ Len(transactions') = Len(transactions) + 1
                  /\ SubSeq(transactions', 1, Len(transactions)) = transactions
                  /\ transactions'[Len(transactions')].user_id = u
                  /\ transactions'[Len(transactions')].points_change = TableValue(c)
                  /\ contains(transactions'[Len(transactions')].description, c)
       /\ (mqtt.pc = "enqueue" /\ mqtt'.pc = "idle")
           => /\ Len(message_queue') = Len(message_queue) + 1
              /\ SubSeq(message_queue', 1, Len(message_queue)) = message_queue
              /\ message_queue'[Len(message_queue')].chat_id = users[mqtt.user_id].telegram_id]_vars

\* A payload whose rubbish_type is missing, empty, or a string that is not
\* a category of the table in any letter case.
Unrecognised(payload) ==
    /\ payload.json = "object"
    /\ \/ ~payload.has_type
       \/ /\ payload.is_str
          /\ payload.rubbish_type \notin {"plastic", "metal", "paper", "glass",
                                          "Plastic", "Metal", "Paper", "Glass"}

\* C12: a sensor message whose rubbish_type is unrecognised, empty or
\* missing is dropped in the step that receives it: no balance changes, no
\* transaction is appended, nothing is enqueued, and no credit is pending.
UnrecognisedTypeDropped ==
    [][(Receives /\ Unrecognised(mqtt'.payload))
        => /\ mqtt'.pc = "idle"
           /\ NothingCredited]_vars

UnrecognisedTypeSeen ==
    /\ mqtt.pc = "idle"
    /\ mqtt.payload.rubbish_type = "styrofoam"
    /\ mqtt.log = "unknown_type"
    /\ \E c \in DOMAIN configuration : configuration[c].active_user_id \in DOMAIN users
    /\ transactions = SeedTransactions
    /\ message_queue = <<>>

\* No row of the configuration table names a user of the users table.
NoActiveUser ==
    \A c \in DOMAIN configuration :
        \/ configuration[c].active_user_id = 0
        \/ configuration[c].active_user_id \notin DOMAIN users

\* C13: a sensor message received while no active user is bound (no
\* configuration row, an empty binding, or a binding to a user that is gone)
\* is dropped: no balance changes, no transaction is appended, nothing is
\* enqueued, and no credit is pending.
NoActiveUserDropped ==
    [][(Receives /\ NoActiveUser)
        => /\ mqtt'.pc = "idle"
           /\ NothingCredited]_vars

NoActiveUserSeen ==
    /\ mqtt.pc = "idle"
    /\ mqtt.payload.rubbish_type = "metal"
    /\ mqtt.log = "user_missing"
    /\ NoActiveUser
    /\ users = SeedUsers
    /\ transactions = SeedTransactions
    /\ message_queue = <<>>

\* A payload that makes the handler raise: malformed JSON, JSON that is not
\* an object, a rubbish_type that is not a string.
Failing(payload) ==
    \/ payload.json \in {"invalid", "array"}
    \/ payload.json = "object" /\ payload.has_type /\ ~payload.is_str

\* C14: no sensor message ends the subscriber: after a payload that raises,
\* and after a commit that fails, the subscriber is back between messages
\* (where the next message is taken), the store and the queue unchanged.
SubscriberSurvives ==
    [][/\ mqtt'.pc # "dead"
       /\ (Receives /\ Failing(mqtt'.payload))
           => /\ mqtt'.pc = "idle"
              /\ NothingCredited
       /\ (mqtt.pc = "commit" /\ mqtt'.pc \notin {"commit", "enqueue"})
           => /\ mqtt'.pc = "idle"
              /\ mqtt'.log = "assign_error"
              /\ NothingCredited]_vars

SubscriberSurvivesSeen ==
    /\ mqtt.pc = "idle"
    /\ mqtt.payload.json = "array"
    /\ mqtt.log = "on_message_error"
    /\ nevents < MaxEvents
    /\ transactions = SeedTransactions

----------------------------------------------------------------------------
\* Session registry.

\* Worker w commits its activation in this step.
Activates(w) ==
    /\ worker[w].pc = "start_commit"
    /\ worker'[w].pc = "done"
    /\ worker'[w].reply = "activated"

\* The holders an activation by user could find bound in the table as it is.
BoundBefore(user) ==
    IF configuration = <<>> THEN {0}
    ELSE {previous_user(configuration[c].active_user_id, user) : c \in DOMAIN configuration}

\* The activation of w runs alone: no other activation is between its load
\* and its commit, and the table is as w loaded it.
Sequential(w) ==
    /\ \A v \in Workers \ {w} : worker[v].pc # "start_commit"
    /\ IF worker[w].config_id = 0
       THEN configuration = <<>>
       ELSE configuration[worker[w].config_id].active_user_id = worker[w].config_active

\* C15: an activation that runs alone leaves the active binding equal to
\* its user, whichever row the next reader gets, and the previous holder it
\* reports is the user that was bound before it.
ActivationOverwrites ==
    [][\A w \in Workers :
        (Activates(w) /\ Sequential(w))
        => /\ configuration' # <<>>
           /\ \A c \in DOMAIN configuration' :
                  configuration'[c].active_user_id = worker[w].user_id
           /\ worker[w].previous_user \in BoundBefore(worker[w].user_id)]_vars

\* C16: the configuration table never holds more than one row.
AtMostOneSessionRecord == Len(configuration) <= 1

\* C17: the previous holder an activation reports is the user that is bound
\* when its write commits.
PreviousHolderIsCurrent ==
    [][\A w \in Workers :
        Activates(w) => worker[w].previous_user \in BoundBefore(worker[w].user_id)]_vars

----------------------------------------------------------------------------
\* Notification queue.

\* C20: the consumer takes the notification that was enqueued first and no
\* other while one is being sent, and the subscriber enqueues behind the
\* notifications that wait: delivery is attempted in the order of enqueuing,
\* one message at a time.
NotificationsInOrder ==
    [][/\ (notifier.pc = "get" /\ notifier'.pc = "send")
           => /\ notifier'.chat_id = Head(message_queue).chat_id
              /\ notifier'.text = Head(message_queue).text
              /\ message_queue' = Tail(message_queue)
       /\ notifier.pc = "send"
           => /\ notifier'.pc = "send" => notifier' = notifier
              /\ Len(message_queue') >= Len(message_queue)
       /\ message_queue' # message_queue /\ notifier' = notifier
           => /\ Len(message_queue') = Len(message_queue) + 1
              /\ SubSeq(message_queue', 1, Len(message_queue)) = message_queue]_vars

NotificationsInOrderSeen ==
    /\ notifier.pc = "send"
    /\ message_queue # <<>>
    /\ message_queue[1].text # notifier.text
    /\ nevents = 2

----------------------------------------------------------------------------
\* Read-only menu actions.

\* The workers showing the answer of handler to a registered sender.
Answered(handler) ==
    {w \in Workers : /\ worker[w].pc = "done"
                     /\ worker[w].handler = handler
                     /\ ~Unregistered(worker[w].sender)}

\* The users row of the sender worker w serves.
SenderRow(w) == CHOOSE u \in DOMAIN users : users[u].telegram_id = worker[w].sender

\* The transactions of user u that assign_points wrote.
DisposalsOf(u) ==
    {i \in DOMAIN transactions :
        transactions[i].user_id = u /\ Head(transactions[i].description) = "Disposed"}

\* The transactions of user u whose description has the word "disposed" in
\* some letter case.
DisposedRowsOf(u) ==
    {i \in DOMAIN transactions :
        /\ transactions[i].user_id = u
        /\ \E k \in DOMAIN transactions[i].description :
              transactions[i].description[k] \in {"Disposed", "disposed", "DISPOSED"}}

\* list is the ten newest rows of S, or all of S when it has fewer, newest
\* first.
TenNewestOf(list, S) ==
    /\ \A k \in DOMAIN list : list[k] \in S
    /\ \A k, l \in DOMAIN list : k < l => list[k] > list[l]
    /\ Len(list) <= 10
    /\ Len(list) = 10 \/ Len(list) = Cardinality(S)
    /\ \A i \in S : (\A k \in DOMAIN list : list[k] # i)
                        => \A k \in DOMAIN list : i < list[k]

LeaderboardInOrder ==
    \A w \in Answered("leaderboard") :
        LET list == worker[w].reply_list
        IN  /\ Len(list) <= 10
            /\ Len(list) = 10 \/ Len(list) = Len(users)
            /\ \A k, l \in DOMAIN list :
                  k < l => \/ users[list[k]].points > users[list[l]].points
                           \/ /\ users[list[k]].points = users[list[l]].points
                              /\ list[k] < list[l]
            /\ \A u \in DOMAIN users : (\A k \in DOMAIN list : list[k] # u)
                  => \A k \in DOMAIN list : users[u].points <= users[list[k]].points

----------------------------------------------------------------------------
\* Notification delivery.

\* The consumer's step that makes a delivery attempt.
Attempts == notifier'.attempts # notifier.attempts

\* C21: a delivery attempt is made only for the message just taken from the
\* queue, counts once, and leaves the consumer waiting for the next message
\* whether it succeeded or failed; the attempt puts nothing back on the queue
\* and changes nothing of the subscriber, of the store or of the web workers;
\* and the consumer never adds a message to the queue.
DeliveryAtMostOnce ==
    [][/\ Attempts
           => /\ notifier.pc = "send"
              /\ notifier'.attempts = notifier.attempts + 1
              /\ notifier'.pc = "get"
              /\ notifier'.log \in {"sent", "failed"}
              /\ message_queue' = message_queue
              /\ mqtt' = mqtt /\ store' = store /\ worker' = worker
       /\ notifier' # notifier => Len(message_queue') <= Len(message_queue)
       /\ (notifier.pc = "get" /\ notifier'.pc = "send")
           => Len(message_queue') = Len(message_queue) - 1]_vars

DeliveryFailedSeen ==
    /\ notifier.pc = "get"
    /\ notifier.log = "failed"
    /\ notifier.attempts = 1
    /\ message_queue = <<>>
    /\ mqtt.log = "assigned"

----------------------------------------------------------------------------
\* Registration states.

\* The sender has shared a phone and given no name yet.
AwaitingName(tg) ==
    LET user == query_user_by_telegram_id(tg)
    IN  user # 0 /\ users[user].name = <<>>

\* The sender's registration is complete.
Registered(tg) ==
    LET user == query_user_by_telegram_id(tg)
    IN  user # 0 /\ users[user].name # <<>>

\* Worker w ends the handler with a reply or with none.
Ends(w, handler) ==
    /\ worker[w].pc # "done"
    /\ worker'[w].pc = "done"
    /\ worker'[w].handler = handler

\* C22: register_contact for a sender who has a User record ends with the
\* store and every registration step as they were; for a sender who has none
\* it ends with exactly one record of that sender, holding the shared phone,
\* no name and 0 points, and with the sender awaiting the name.
PhoneShareRegisters ==
    [][\A w \in Workers : Ends(w, "register_contact") =>
          LET tg == worker'[w].sender
              rows == {u \in DOMAIN users' : users'[u].telegram_id = tg}
          IN  IF worker'[w].reply = "already_registered"
              THEN /\ ~Unregistered(tg)
                   /\ store' = store
                   /\ user_data' = user_data
              ELSE /\ Cardinality(rows) = 1
                   /\ \A u \in rows : /\ users'[u].phone_number = worker'[w].data
                                       /\ users'[u].name = <<>>
                                       /\ users'[u].points = 0
                   /\ user_data'[tg] = "awaiting_name"]_vars

\* C23: a user's name changes only while that user is awaiting the name, by
\* the collect_name request of that user, to the stripped text; and a free
\* text of a sender who has no record or whose registration is complete is
\* rejected with the guidance message and changes nothing.
NameOnlyWhileAwaited ==
    [][/\ \A u \in DOMAIN users : users'[u].name # users[u].name =>
              /\ users[u].name = <<>>
              /\ \E w \in Workers : /\ worker[w].pc = "collect_commit"
                                     /\ worker'[w].pc = "collect_pop"
                                     /\ worker[w].sender = users[u].telegram_id
                                     /\ users'[u].name = strip(worker[w].data)
       /\ \A w \in Workers :
              (/\ worker[w].pc = "idle"
               /\ worker'[w].handler = "collect_name"
               /\ ~AwaitingName(worker'[w].sender))
              => /\ worker'[w].pc = "done"
                 /\ worker'[w].reply = "unexpected_input"
                 /\ store' = store
                 /\ user_data' = user_data]_vars

\* C24: a free text of a sender who has shared a phone and given no name
\* yet, with no register_contact of that sender in service, is accepted as
\* the name, whatever the process has lost of its memory since.
RegistrationSurvivesRestart ==
    [][\A w \in Workers :
          (/\ worker[w].pc = "idle"
           /\ worker'[w].handler = "collect_name"
           /\ AwaitingName(worker'[w].sender)
           /\ \A v \in Workers : ~(worker[v].pc = "register_step"
                                     /\ worker[v].sender = worker'[w].sender))
          => worker'[w].pc = "collect_commit"]_vars

\* C25: /start activate_bin writes the binding only for a sender whose
\* registration is complete: a sender who has given no name yet never
\* becomes the active user.
ActivationOnlyWhenRegistered ==
    [][\A w \in Workers :
          (worker[w].pc = "start_commit" /\ configuration' # configuration)
          => Registered(worker[w].sender)]_vars

----------------------------------------------------------------------------
\* Balances and redemptions.

\* C26: no user's points balance is below zero.
BalanceNonNegative == \A u \in DOMAIN users : users[u].points >= 0

\* The points credited to user u: the sum of the positive deltas of the ledger.
Credited(u) ==
    LET Mine(t) == t.user_id = u /\ t.points_change > 0
        mine == SelectSeq(transactions, Mine)
    IN  SumSeq([i \in DOMAIN mine |-> mine[i].points_change])

\* The cost of the rewards that the success messages of the workers S name.
RECURSIVE Spent(_)
Spent(S) ==
    IF S = {} THEN 0
    ELSE LET w == CHOOSE x \in S : TRUE
         IN  rewards[worker[w].reply_reward].points_required + Spent(S \ {w})

\* C27: when every request taken so far is a redemption that succeeded, the
\* rewards that one user was given cost together no more than the points
\* that user had been credited: of two concurrent redemptions that the
\* balance covers singly but not jointly, at most one succeeds.
NoDoubleSpend ==
    OnlyRedemptionsShown({"redeemed"})
    => \A u \in DOMAIN users :
           Spent({w \in Showing({"redeemed"}) : worker[w].sender = users[u].telegram_id})
               <= Credited(u)

\* C28: after one redemption, served alone, has succeeded, the user's balance
\* is lower by the reward's points_required, the reward's quantity is lower
\* by 1, and the ledger has exactly one new transaction: of that user, with
\* delta = -points_required, naming the reward and, for a reward that comes
\* with a pin, the pin that was issued.
RedemptionRecorded ==
    \A w \in Showing({"redeemed"}) :
        (nrequests = 1 /\ worker[w].handler = "redeem") =>
            LET u == query_user_by_telegram_id(worker[w].sender)
                r == worker[w].reply_reward
                last == transactions[Len(transactions)]
            IN  /\ users[u].points = SeedUsers[u].points - rewards[r].points_required
                /\ rewards[r].quantity_available = SeedRewards[r].quantity_available - 1
                /\ Len(transactions) = Len(SeedTransactions) + 1
                /\ last.user_id = u
                /\ last.points_change = 0 - rewards[r].points_required
                /\ \A i \in DOMAIN rewards[r].name : contains(last.description, rewards[r].name[i])
                /\ worker[w].reply_pin # "" => contains(last.description, worker[w].reply_pin)

\* Worker w decides on the redemption it has loaded the user for.
Decides(w) == worker[w].pc = "redeem_reward" /\ Steps(w)

\* C29: the refusals of a redemption come in a fixed order.  An unknown
\* reward is reported before anything else; a balance below the cost is
\* reported whatever the stock is; a reward with no quantity left is
\* reported only when the balance suffices, and whether its pin file has a
\* pin or not; a missing pin is reported only for a reward that the balance
\* covers and that is in stock.  None of these refusals writes to the store,
\* and a pin file is rewritten only for a reward that was in stock.
RefusalsInOrder ==
    [][\A w \in Workers :
          LET me == worker[w]
              r == me.arg
              known == r \in DOMAIN rewards
          IN  /\ (Decides(w) /\ ~known)
                  => worker'[w].reply = "invalid_reward" /\ store' = store
              /\ (Decides(w) /\ known /\ me.user_points < rewards[r].points_required)
                  => worker'[w].reply = "insufficient_points" /\ store' = store
              /\ (/\ Decides(w) /\ known
                   /\ me.user_points >= rewards[r].points_required
                   /\ rewards[r].quantity_available <= 0)
                  => worker'[w].reply = "out_of_stock" /\ store' = store
              /\ (Steps(w) /\ worker'[w].reply = "no_pins")
                  => /\ me.pc \in {"redeem_reward", "pin_read"}
                     /\ known
                     /\ me.user_points >= rewards[r].points_required
                     /\ IF me.pc = "pin_read" THEN me.reward_quantity > 0
                                              ELSE rewards[r].quantity_available > 0
                     /\ store' = store
              /\ (Steps(w) /\ pin_files' # pin_files) => me.reward_quantity > 0]_vars

BothInsufficientAndSoldOutSeen ==
    \E w \in Showing({"insufficient_points"}) :
        LET r == worker[w].reply_reward
        IN  /\ rewards[r].quantity_available = 0
            /\ users[query_user_by_telegram_id(worker[w].sender)].points
                    < rewards[r].points_required

\* The pin file of the amount that the reward's name states, "" when there
\* is none for that amount.
OwnPool(reward) ==
    IF \E i \in DOMAIN reward.name : upper_word(reward.name[i]) = "RM5"
    THEN "tng_pins_rm5.txt"
    ELSE IF \E i \in DOMAIN reward.name : upper_word(reward.name[i]) = "RM10"
    THEN "tng_pins_rm10.txt"
    ELSE ""

\* C30: a redemption reads and rewrites no pin file but the one of its
\* reward's amount, the pin it issues is a line of that file, and a reward
\* that comes with a pin and has no file of its amount is refused for want
\* of pins.
PinFromOwnPool ==
    [][\A w \in Workers :
          /\ (Steps(w) /\ worker'[w].pc \in {"pin_read", "pin_truncate", "pin_write"})
              => worker'[w].pin_file = OwnPool(rewards[worker'[w].reward_id])
          /\ (Steps(w) /\ worker'[w].pc = "pin_truncate")
              => \E i \in DOMAIN pin_files[OwnPool(rewards[worker[w].reward_id])].lines :
                     pin_files[OwnPool(rewards[worker[w].reward_id])].lines[i]
                         = <<worker'[w].tng_pin>>
          /\ (/\ Decides(w)
               /\ worker[w].arg \in DOMAIN rewards
               /\ worker'[w].reply \notin {"insufficient_points", "out_of_stock"}
               /\ is_tng(rewards[worker[w].arg])
               /\ OwnPool(rewards[worker[w].arg]) = "")
              => worker'[w].reply = "no_pins"]_vars

----------------------------------------------------------------------------
\* Sensor credits and their notifications.

\* A notification is put on the queue in this step.
Enqueues == Len(message_queue') > Len(message_queue)

Bound == {configuration[c].active_user_id : c \in DOMAIN configuration}

\* C32: the subscriber settles the user of a credit when it reads the
\* binding, on receipt of the event: a user that a row of the configuration
\* table references at that moment; it keeps that user until the commit,
\* whatever activations commit in between.  The commit appends the disposal
\* transaction of that user and changes the balance of that user only, and
\* no other step of the subscriber changes a balance or the ledger.
CreditGoesToBoundUser ==
    [][/\ (Receives /\ mqtt'.pc = "commit")
           => /\ mqtt'.user_id \in Bound
              /\ mqtt'.user_id \in DOMAIN users
       /\ (mqtt.pc = "commit" /\ mqtt'.pc # "idle") => mqtt'.user_id = mqtt.user_id
       /\ (mqtt.pc = "commit" /\ mqtt'.pc = "enqueue")
           => /\ transactions' = Append(transactions,
                      [user_id |-> mqtt.user_id, points_change |-> mqtt.points,
                       description |-> <<"Disposed", mqtt.rubbish_type>>])
              /\ \A v \in DOMAIN users : v # mqtt.user_id => users'[v] = users[v]
              /\ users'[mqtt.user_id].points # users[mqtt.user_id].points
       /\ (mqtt' # mqtt /\ ~(mqtt.pc = "commit" /\ mqtt'.pc = "enqueue"))
           => users' = users /\ transactions' = transactions]_vars

CreditAfterRebindingSeen ==
    /\ mqtt.pc = "enqueue"
    /\ mqtt.user_id = 2
    /\ Bound = {1}
    /\ \E w \in Workers : /\ worker[w].pc = "done"
                           /\ worker[w].reply = "activated"
                           /\ worker[w].sender = 101
    /\ transactions[Len(transactions)].user_id = 2

----------------------------------------------------------------------------
\* Frame conditions.

MenuHandlers ==
    {"check_balance", "redeem_rewards", "view_events", "event_details",
     "leaderboard", "history", "main_menu", "active_user"}

\* C34: a menu query or the /active_user command is served in one step
\* that answers in the chat and leaves the tables (balances, quantities,
\* transactions, the binding), the pin files, the queue and every sender's
\* registration step as they were; a sender whose registration is complete
\* stays so.
MenuLeavesStateUnchanged ==
    [][\A w \in Workers :
          (Steps(w) /\ worker[w].pc = "idle" /\ worker'[w].handler \in MenuHandlers)
          => /\ worker'[w].pc = "done"
             /\ worker'[w].reply # ""
             /\ store' = store
             /\ user_data' = user_data
             /\ message_queue' = message_queue
             /\ \A sender \in Senders : Registered(sender) => Registered(sender)']_vars

MenuServedSeen ==
    /\ user_data[103] = "awaiting_name"
    /\ \E w \in Workers : /\ worker[w].pc = "done"
                           /\ worker[w].handler = "check_balance"
                           /\ worker[w].sender = 103
                           /\ worker[w].reply = "balance"
    /\ \E w \in Workers : /\ worker[w].pc = "done"
                           /\ worker[w].handler = "active_user"
                           /\ worker[w].sender = 101
                           /\ worker[w].reply = "active_user"

\* C33: every step of the bot leaves the transactions it finds as they are
\* and in their places: the ledger after the step begins with the ledger
\* before it.
LedgerAppendOnly ==
    [][/\ Len(transactions') >= Len(transactions)
       /\ SubSeq(transactions', 1, Len(transactions)) = transactions]_vars

LedgerGrownSeen ==
    /\ Len(transactions) = Len(SeedTransactions) + 2
    /\ SubSeq(transactions, 1, Len(SeedTransactions)) = SeedTransactions
    /\ \E i, j \in DOMAIN transactions :
          /\ i > Len(SeedTransactions) /\ j > Len(SeedTransactions)
          /\ Head(transactions[i].description) = "Disposed"
          /\ Head(transactions[j].description) = "Redeemed"

\* C35: /start from a sender who has no row in users, with or without
\* activate_bin, ends in the registration prompt and changes nothing in the
\* store: no row is inserted and the configuration is as it was.
UnknownSenderOnlyPrompted ==
    [][\A w \in Workers :
         (/\ Steps(w)
          /\ worker[w].pc = "idle"
          /\ worker'[w].handler = "start"
          /\ query_user_by_telegram_id(worker'[w].sender) = 0)
         => /\ worker'[w].pc = "done"
            /\ worker'[w].reply = "register_prompt"
            /\ store' = store
            /\ user_data' = user_data
            /\ message_queue' = message_queue]_vars

UnknownSenderPromptedSeen ==
    /\ query_user_by_telegram_id(103) = 0
    /\ \E w, v \in Workers :
          /\ worker[w].pc = "done" /\ worker[w].handler = "start"
          /\ worker[w].sender = 103 /\ worker[w].reply = "register_prompt"
          /\ worker[v].pc = "done" /\ worker[v].handler = "start"
          /\ worker[v].sender = 102 /\ worker[v].reply = "activated"
    /\ \E c \in DOMAIN configuration : configuration[c].active_user_id = 2

\* C36: in every reachable state the users table holds at most one row per
\* chat id, also when two threads handle the same sender's contact at once.
OneUserPerChat ==
    \A sender \in Senders :
        Cardinality({u \in DOMAIN users : users[u].telegram_id = sender}) <= 1

ConcurrentContactsSeen ==
    /\ Cardinality({u \in DOMAIN users : users[u].telegram_id = 103}) = 1
    /\ \E w, v \in Workers :
          /\ worker[w].handler = "register_contact" /\ worker[w].sender = 103
          /\ worker[w].pc = "done" /\ worker[w].reply = "ask_name"
          /\ worker[v].handler = "register_contact" /\ worker[v].sender = 103
          /\ worker[v].pc = "done" /\ worker[v].reply = "no_reply"
          /\ worker[v].data = worker[w].data

----------------------------------------------------------------------------
\* The consumer's progress.

\* Notifications put on the queue so far: those waiting, the one in the
\* consumer's hands and those whose delivery was attempted.
Enqueued ==
    Len(message_queue) + notifier.attempts + (IF notifier.pc = "send" THEN 1 ELSE 0)

\* C38: under a fair scheduling of the consumer every notification put on
\* the queue gets its delivery attempt, whatever became of the deliveries
\* before it: once k notifications were enqueued, k attempts are made.
EveryNotificationAttempted ==
    \A k \in 1..(MaxEvents + 1) : (Enqueued >= k) ~> (notifier.attempts >= k)

\* The first delivery failed and the consumer holds the second message.
AttemptAfterFailureSeen ==
    /\ notifier.pc = "send"
    /\ notifier.attempts = 1
    /\ notifier.log = "failed"
    /\ Enqueued = 2

----------------------------------------------------------------------------
\* Startup and the broker connection.

\* The connection attempt of setup_client failed, or a connection was lost.
Disconnected == startup.connection \in {"failed", "lost"}

\* C37: after a loss of the broker connection, and after a failed first
\* connection attempt, the client is eventually connected and subscribed to
\* the topic again.
SubscriberReconnects == Disconnected ~> Subscribed

\* The part that the loop thread provides: a connection that was lost is
\* made and subscribed again.
LostConnectionRestored == (startup.connection = "lost") ~> Subscribed

\* C39: when initialize_bot has returned on a path that leaves the
\* dispatcher with its handlers, the loop thread of the client and the
\* thread of process_message_queue have been started.
StartupStartsBothLoops ==
    Serving => (startup.loop /\ startup.consumer)

====
